---- MODULE Spec2Model ----
(***************************************************************************)
(* Verification model of the extraction pipeline of Takeoff-Automation:    *)
(* the JSON repair parser (cleanAndRepairJson) and the request             *)
(* orchestrator (analyzeDrawing) of the Gemini service.                    *)
(*                                                                         *)
(* Texts are sequences of one-character strings.  Indices handed between   *)
(* the string helpers are 0-based, as in the JavaScript source.            *)
(***************************************************************************)
EXTENDS Integers, Sequences, FiniteSets, TLC

(***************************************************************************)
(* Characters                                                              *)
(***************************************************************************)
LB == "{"
RB == "}"
LK == "["
RK == "]"
QT == "\""
BS == "\\"
CM == ","
CL == ":"
SP == " "
\* the backtick of a code fence (written as a grave-accent token)
BT == "bt"

\* whitespace of the modelled alphabet (\s of the regular expressions, trim)
Ws == {SP}

Digits == {"1"}

\* characters that may follow a backslash inside a JSON string literal
EscapeChars == {QT, BS, "n"}

(***************************************************************************)
(* JavaScript string primitives                                            *)
(***************************************************************************)
RECURSIVE TrimStart(_)
TrimStart(s) ==
  IF s # <<>> /\ Head(s) \in Ws THEN TrimStart(Tail(s)) ELSE s

RECURSIVE TrimEnd(_)
TrimEnd(s) ==
  IF s # <<>> /\ s[Len(s)] \in Ws THEN TrimEnd(SubSeq(s, 1, Len(s) - 1)) ELSE s

\* String.prototype.trim
Trim(s) == TrimEnd(TrimStart(s))

StartsWith(s, p) == Len(s) >= Len(p) /\ SubSeq(s, 1, Len(p)) = p

EndsWith(s, p) == Len(s) >= Len(p) /\ SubSeq(s, Len(s) - Len(p) + 1, Len(s)) = p

\* String.prototype.indexOf for one character: 0-based, -1 when absent
IndexOf(s, c) ==
  LET hits == {i \in 1..Len(s) : s[i] = c}
  IN IF hits = {} THEN -1 ELSE (CHOOSE i \in hits : \A j \in hits : i <= j) - 1

\* String.prototype.lastIndexOf for one character: 0-based, -1 when absent
LastIndexOf(s, c) ==
  LET hits == {i \in 1..Len(s) : s[i] = c}
  IN IF hits = {} THEN -1 ELSE (CHOOSE i \in hits : \A j \in hits : i >= j) - 1

Max(a, b) == IF a >= b THEN a ELSE b
Min(a, b) == IF a <= b THEN a ELSE b

\* String.prototype.substring(start, end): both clamped to 0..length and
\* swapped when start > end
Substring(s, start, end) ==
  LET a == Min(Max(start, 0), Len(s))
      b == Min(Max(end, 0), Len(s))
  IN SubSeq(s, Min(a, b) + 1, Max(a, b))

Includes(s, c) == \E i \in 1..Len(s) : s[i] = c

(***************************************************************************)
(* cleanAndRepairJson, step by step                                        *)
(***************************************************************************)
Fence == <<BT, BT, BT>>
FenceJson == <<BT, BT, BT, "j", "s", "o", "n">>

\* text.replace(/^<prefix>\s*/, "")
StripPrefix(s, prefix) ==
  IF StartsWith(s, prefix)
  THEN TrimStart(SubSeq(s, Len(prefix) + 1, Len(s)))
  ELSE s

\* text.replace(/\s*<fence>$/, "")
StripSuffix(s, suffix) ==
  IF EndsWith(s, suffix)
  THEN TrimEnd(SubSeq(s, 1, Len(s) - Len(suffix)))
  ELSE s

\* 1. Basic cleanup
BasicCleanup(text) ==
  StripSuffix(StripPrefix(StripPrefix(Trim(text), FenceJson), Fence), Fence)

\* 3. cutoff: one past the last closing brace/bracket, or the length
Cutoff(t) ==
  LET last == Max(LastIndexOf(t, RB), LastIndexOf(t, RK))
  IN IF last = -1 THEN Len(t) ELSE last + 1

\* 2.-3. the text kept between the first "{" and the cutoff
Window(t) == Substring(t, IndexOf(t, LB), Cutoff(t))

\* the replacement without \s*: only an opener right after the closer
RECURSIVE InsertCommaAdjacent(_, _, _)
InsertCommaAdjacent(s, closer, opener) ==
  IF s = <<>> THEN <<>>
  ELSE IF Head(s) = closer /\ Tail(s) # <<>> /\ Head(Tail(s)) = opener
    THEN <<closer, CM, SP, opener>> \o InsertCommaAdjacent(Tail(Tail(s)), closer, opener)
    ELSE <<Head(s)>> \o InsertCommaAdjacent(Tail(s), closer, opener)

\* 4. clean.replace(/<closer>\s*<opener>/g, "<closer>, <opener>")
RECURSIVE InsertComma(_, _, _)
InsertComma(s, closer, opener) ==
  IF s = <<>> THEN <<>>
  ELSE LET rest == TrimStart(Tail(s))
       IN IF Head(s) = closer /\ rest # <<>> /\ Head(rest) = opener
          THEN <<closer, CM, SP, opener>> \o InsertComma(Tail(rest), closer, opener)
          ELSE <<Head(s)>> \o InsertComma(Tail(s), closer, opener)

FixSeparators(clean) == InsertComma(InsertComma(clean, RB, LB), RK, LK)

\* 5. trim, then drop one trailing comma
DropTrailingComma(clean) ==
  LET t == Trim(clean)
  IN IF t # <<>> /\ t[Len(t)] = CM THEN SubSeq(t, 1, Len(t) - 1) ELSE t

\* the scan without escape tracking: every quote toggles the string state
RECURSIVE ScanNoEscape(_, _, _, _, _)
ScanNoEscape(clean, i, stack, inString, escaped) ==
  IF i > Len(clean) THEN [stack |-> stack, inString |-> inString]
  ELSE LET char == clean[i] IN
    IF char = QT THEN ScanNoEscape(clean, i + 1, stack, ~inString, escaped)
    ELSE IF inString THEN ScanNoEscape(clean, i + 1, stack, TRUE, escaped)
    ELSE IF char = LB THEN ScanNoEscape(clean, i + 1, Append(stack, RB), FALSE, escaped)
    ELSE IF char = LK THEN ScanNoEscape(clean, i + 1, Append(stack, RK), FALSE, escaped)
    ELSE IF char \in {RB, RK} /\ Len(stack) > 0 /\ stack[Len(stack)] = char
      THEN ScanNoEscape(clean, i + 1, SubSeq(stack, 1, Len(stack) - 1), FALSE, escaped)
    ELSE ScanNoEscape(clean, i + 1, stack, FALSE, escaped)

\* 6. the balancing scan: the stack of expected closers and the string state
\* after reading clean[i..]
RECURSIVE Scan(_, _, _, _, _)
Scan(clean, i, stack, inString, escaped) ==
  IF i > Len(clean) THEN [stack |-> stack, inString |-> inString]
  ELSE LET char == clean[i] IN
    IF inString THEN
      IF char = BS /\ ~escaped THEN Scan(clean, i + 1, stack, TRUE, TRUE)
      ELSE IF char = QT /\ ~escaped THEN Scan(clean, i + 1, stack, FALSE, escaped)
      ELSE Scan(clean, i + 1, stack, TRUE, FALSE)
    ELSE IF char = QT THEN Scan(clean, i + 1, stack, TRUE, escaped)
    ELSE IF char = LB THEN Scan(clean, i + 1, Append(stack, RB), FALSE, escaped)
    ELSE IF char = LK THEN Scan(clean, i + 1, Append(stack, RK), FALSE, escaped)
    ELSE IF char \in {RB, RK} /\ Len(stack) > 0 /\ stack[Len(stack)] = char
      THEN Scan(clean, i + 1, SubSeq(stack, 1, Len(stack) - 1), FALSE, escaped)
    ELSE Scan(clean, i + 1, stack, FALSE, escaped)

\* 8. the stack popped to the end of the text
RECURSIVE Reverse(_)
Reverse(s) == IF s = <<>> THEN <<>> ELSE Append(Reverse(Tail(s)), Head(s))

\* 6.-8. close an open string, then the open brackets in LIFO order
Balance(clean) ==
  LET r == Scan(clean, 1, <<>>, FALSE, FALSE)
  IN clean \o (IF r.inString THEN <<QT>> ELSE <<>>) \o Reverse(r.stack)

\* the function without its early return for a text without "{"
cleanAndRepairJsonNoGuard(text) ==
  Balance(DropTrailingComma(FixSeparators(Window(BasicCleanup(text)))))

cleanAndRepairJson(text) ==
  LET t == BasicCleanup(text)
  IN IF IndexOf(t, LB) = -1 THEN <<LB, RB>>
     ELSE Balance(DropTrailingComma(FixSeparators(Window(t))))

(***************************************************************************)
(* JSON.parse: does the text parse?  A recursive-descent recogniser of the *)
(* JSON grammar over the modelled alphabet.  Each Parse operator takes a   *)
(* 1-based position and returns the position after what it read, 0 when    *)
(* the text is rejected.                                                   *)
(***************************************************************************)
RECURSIVE SkipWs(_, _)
SkipWs(s, i) == IF i <= Len(s) /\ s[i] \in Ws THEN SkipWs(s, i + 1) ELSE i

RECURSIVE ParseStringBody(_, _)
ParseStringBody(s, i) ==
  IF i > Len(s) THEN 0
  ELSE IF s[i] = QT THEN i + 1
  ELSE IF s[i] = BS
    THEN IF i + 1 <= Len(s) /\ s[i + 1] \in EscapeChars
         THEN ParseStringBody(s, i + 2) ELSE 0
  ELSE ParseStringBody(s, i + 1)

RECURSIVE ParseDigits(_, _)
ParseDigits(s, i) ==
  IF i <= Len(s) /\ s[i] \in Digits THEN ParseDigits(s, i + 1) ELSE i

RECURSIVE ParseValue(_, _), ParseMembers(_, _), ParseElements(_, _)
ParseValue(s, i0) ==
  LET i == SkipWs(s, i0) IN
  IF i > Len(s) THEN 0
  ELSE IF s[i] = LB
    THEN LET j == SkipWs(s, i + 1)
         IN IF j <= Len(s) /\ s[j] = RB THEN j + 1 ELSE ParseMembers(s, j)
  ELSE IF s[i] = LK
    THEN LET j == SkipWs(s, i + 1)
         IN IF j <= Len(s) /\ s[j] = RK THEN j + 1 ELSE ParseElements(s, j)
  ELSE IF s[i] = QT THEN ParseStringBody(s, i + 1)
  ELSE IF s[i] \in Digits THEN ParseDigits(s, i + 1)
  ELSE 0

ParseMembers(s, i) ==
  IF i > Len(s) \/ s[i] # QT THEN 0
  ELSE LET k == ParseStringBody(s, i + 1) IN
    IF k = 0 THEN 0
    ELSE LET c == SkipWs(s, k) IN
      IF c > Len(s) \/ s[c] # CL THEN 0
      ELSE LET v == ParseValue(s, c + 1) IN
        IF v = 0 THEN 0
        ELSE LET e == SkipWs(s, v) IN
          IF e > Len(s) THEN 0
          ELSE IF s[e] = RB THEN e + 1
          ELSE IF s[e] = CM THEN ParseMembers(s, SkipWs(s, e + 1))
          ELSE 0

ParseElements(s, i) ==
  LET v == ParseValue(s, i) IN
  IF v = 0 THEN 0
  ELSE LET e == SkipWs(s, v) IN
    IF e > Len(s) THEN 0
    ELSE IF s[e] = RK THEN e + 1
    ELSE IF s[e] = CM THEN ParseElements(s, e + 1)
    ELSE 0

\* JSON.parse(s) returns (TRUE) or throws a SyntaxError (FALSE)
JsonParses(s) ==
  LET v == ParseValue(s, 1) IN v # 0 /\ SkipWs(s, v) = Len(s) + 1

\* the text is one JSON object
JsonObject(s) == s # <<>> /\ s[1] = LB /\ ParseValue(s, 1) = Len(s) + 1

(***************************************************************************)
(* Bounds of the checked input space                                       *)
(***************************************************************************)
\* longest body of an object key of a generated document
MaxKeyLen == 1
\* longest body of a string value of a generated document
MaxStrLen == 2
\* longest raw (arbitrary) input text
MaxRawLen == 5

\* characters of the bodies of generated string literals
BodyChars == {"a", RB, LB, RK, CM}

\* characters of the raw input texts
RawChars == {LB, RB, LK, RK, SP, CM, QT}

RECURSIVE SeqsUpTo(_, _)
SeqsUpTo(S, n) ==
  IF n = 0 THEN {<<>>}
  ELSE LET p == SeqsUpTo(S, n - 1) IN p \cup {Append(q, c) : q \in p, c \in S}

Lit(body) == <<QT>> \o body \o <<QT>>

KeyLits == {Lit(b) : b \in SeqsUpTo(BodyChars, MaxKeyLen)}

StrLits == {Lit(b) : b \in SeqsUpTo(BodyChars, MaxStrLen)} \cup {Lit(<<BS, QT>>)}

Nested ==
  { <<LB, RB>>, <<LK, RK>>, <<LK, "1", RK>>,
    <<LK, LB, RB, CM, LB, RB, RK>>, <<LK, LK, RK, CM, LK, RK, RK>> }

Vals == {<<"1">>} \cup StrLits \cup Nested

Member(k, v) == k \o <<CL>> \o v

\* what follows the first member of a generated object
Tails ==
  { <<>>, <<CM>> \o Member(Lit(<<"a">>), <<"1">>),
    <<CM>> \o Member(Lit(<<"a">>), <<LB, RB>>) }

Objects ==
  {<<LB, RB>>} \cup
  {<<LB>> \o Member(k, v) \o t \o <<RB>> : k \in KeyLits, v \in Vals, t \in Tails}

\* valid JSON texts: the objects, and some texts that are not objects
Docs ==
  Objects \cup {<<"1">>, Lit(<<"a">>), <<LK, "1", RK>>, <<LK, LB, RB, CM, LB, RB, RK>>}

RawTexts == SeqsUpTo(RawChars, MaxRawLen)

\* position i of s lies outside every string literal of s
OutsideString(s, i) == ~Scan(SubSeq(s, 1, i - 1), 1, <<>>, FALSE, FALSE).inString

(***************************************************************************)
(* analyzeDrawing: messages, replies and the catch block                   *)
(*                                                                         *)
(* A message is a sequence of fragments; the fragments are cut so that     *)
(* every substring the code searches for is a fragment of its own.         *)
(***************************************************************************)
maxAttempts == 3

MsgIncludes(msg, needle) == \E i \in 1..Len(msg) : msg[i] = needle

CancelledMsg == <<"Analysis ", "cancelled by user", ".">>

NoDataMsg == <<"No data returned", " from Gemini.">>

MaxTokensMsg == <<"Analysis stopped: ", "MAX_TOKENS", " reached and no text generated.">>

StoppedMsg(finishReason) == <<"Analysis stopped: ", finishReason>>

ParseFailedMsg(m) == <<"JSON Parse Failed: ">> \o m

FailedMsg(m) == <<"Analysis failed: ">> \o m

\* messages with which generateContent may reject
ApiErrors ==
  { <<"got status: ", "503", " UNAVAILABLE">>,
    <<"got status: ", "400", " API key not valid">> }

\* messages of the SyntaxError of JSON.parse: it names the offending
\* position, which in a long reply may read 500
SyntaxErrors ==
  { <<"Unexpected token } in JSON at position ", "7">>,
    <<"Unexpected token } in JSON at position ", "500">> }

\* the TypeError of processVisuals on an entry without a type code
VisualsError == <<"Cannot read properties of undefined (reading 'toLowerCase')">>

\* the TypeError of assigning a property to a parsed primitive (the service
\* is an ES module, so its code is strict)
PrimitiveError == <<"Cannot create property 'takeoff' on number">>

\* texts a reply may carry: valid, truncated but repairable, beyond
\* repair, and one whose repair parses to a primitive
ReplyTexts ==
  { <<LB, RB>>,
    <<LB, QT, "a", QT, CL, "1">>,
    <<LB, QT, "a", QT>>,
    <<RK, "1", LB>> }

FinishReasons == {"STOP", "MAX_TOKENS", "SAFETY"}

\* a reply: response.text, whether candidates[0] exists, the joined text of
\* its parts and its finishReason ("" when undefined)
Replies ==
  { [text |-> t, hasCandidate |-> FALSE, partsText |-> <<>>, finishReason |-> ""] :
      t \in ReplyTexts \cup {<<>>} }
  \cup
  { [text |-> t, hasCandidate |-> TRUE, partsText |-> p, finishReason |-> f] :
      t \in ReplyTexts \cup {<<>>}, p \in {<<>>, <<LB, RB>>},
      f \in FinishReasons \cup {""} }

NoReply == [text |-> <<>>, hasCandidate |-> FALSE, partsText |-> <<>>, finishReason |-> ""]

\* the text after the candidate-parts fallback
ReplyText(r) ==
  IF r.text = <<>> /\ r.hasCandidate THEN r.partsText ELSE r.text

\* the stop-reason check applied whether or not the reply carries text
ReplyErrorOnStop(r) ==
  LET t == ReplyText(r) IN
  IF r.hasCandidate /\ r.finishReason = "MAX_TOKENS" THEN MaxTokensMsg
  ELSE IF r.hasCandidate /\ r.finishReason # "" /\ r.finishReason # "STOP"
    THEN StoppedMsg(r.finishReason)
  ELSE IF t = <<>> THEN NoDataMsg
  ELSE <<>>

\* the error thrown on the stop reason or the missing text, <<>> when none
ReplyError(r) ==
  LET t == ReplyText(r) IN
  IF t = <<>> /\ r.hasCandidate /\ r.finishReason = "MAX_TOKENS" THEN MaxTokensMsg
  ELSE IF t = <<>> /\ r.hasCandidate /\ r.finishReason # "" /\ r.finishReason # "STOP"
    THEN StoppedMsg(r.finishReason)
  ELSE IF t = <<>> THEN NoDataMsg
  ELSE <<>>

\* the retriable check without the missing-text signature
IsRetriableNoData(msg) ==
  \/ MsgIncludes(msg, "500")
  \/ MsgIncludes(msg, "503")
  \/ MsgIncludes(msg, "Internal error")
  \/ MsgIncludes(msg, "INTERNAL")
  \/ MsgIncludes(msg, "Overloaded")

\* the retriable check of the catch block
IsRetriable(msg) ==
  \/ MsgIncludes(msg, "500")
  \/ MsgIncludes(msg, "503")
  \/ MsgIncludes(msg, "Internal error")
  \/ MsgIncludes(msg, "INTERNAL")
  \/ MsgIncludes(msg, "Overloaded")
  \/ MsgIncludes(msg, "No data returned")

\* the backoff counted from the attempt index instead of the attempt count
WaitTimeFromZero(n) == 1000 * 2 ^ (n - 1)

\* 1000 * Math.pow(2, attempts), in milliseconds
WaitTime(n) == 1000 * 2 ^ n

Event(e, n) == [ev |-> e, n |-> n]

Thrown(msg) == [kind |-> "thrown", msg |-> msg]

Returned == [kind |-> "result", msg |-> <<>>]

NoOutcome == [kind |-> "none", msg |-> <<>>]

\* the catch block without the re-throw of a cancellation
CatchBlockNoRethrow(error, a, last, ab) ==
  IF IsRetriable(error) /\ a + 1 < maxAttempts
  THEN IF ab
       THEN [pc |-> "done", attempts |-> a + 1, lastError |-> error,
             outcome |-> Thrown(CancelledMsg), wait |-> 0,
             events |-> <<Event("cancel", 4)>>]
       ELSE [pc |-> "delay", attempts |-> a + 1, lastError |-> error,
             outcome |-> NoOutcome, wait |-> WaitTime(a + 1),
             events |-> <<Event("wait", WaitTime(a + 1))>>]
  ELSE [pc |-> "done",
        attempts |-> IF IsRetriable(error) THEN a + 1 ELSE a,
        lastError |-> error,
        outcome |-> Thrown(FailedMsg(error)), wait |-> 0, events |-> <<>>]

\* the catch block on error, with attempts = a and signal.aborted = ab:
\* where control goes, and the new attempts, lastError, outcome and events
CatchBlock(error, a, last, ab) ==
  IF MsgIncludes(error, "cancelled by user")
  THEN [pc |-> "done", attempts |-> a, lastError |-> last,
        outcome |-> Thrown(error), wait |-> 0, events |-> <<>>]
  ELSE IF IsRetriable(error) /\ a + 1 < maxAttempts
  THEN IF ab
       THEN [pc |-> "done", attempts |-> a + 1, lastError |-> error,
             outcome |-> Thrown(CancelledMsg), wait |-> 0,
             events |-> <<Event("cancel", 4)>>]
       ELSE [pc |-> "delay", attempts |-> a + 1, lastError |-> error,
             outcome |-> NoOutcome, wait |-> WaitTime(a + 1),
             events |-> <<Event("wait", WaitTime(a + 1))>>]
  ELSE [pc |-> "done",
        attempts |-> IF IsRetriable(error) THEN a + 1 ELSE a,
        lastError |-> error,
        outcome |-> Thrown(FailedMsg(error)), wait |-> 0, events |-> <<>>]

\* a member of the parsed reply: undefined (absent), null, a string, an
\* object, or an array with its entries
Field(k, items) == [kind |-> k, items |-> items]

EmptyList == Field("array", <<>>)

FieldValues ==
  { Field(k, <<>>) : k \in {"undefined", "null", "string", "object"} }
  \cup { Field("array", i) : i \in {<<>>, <<"entry">>} }

\* the members takeoff and catalog of a parsed reply
Fields(t, c) == [takeoff |-> t, catalog |-> c]

NoFields == Fields(Field("undefined", <<>>), Field("undefined", <<>>))

\* what JSON.parse may find under takeoff and catalog in the repaired text:
\* nothing in an array or in {}; the members of any other text stand for
\* those of the reply
ParsedFields(cleanedJson) ==
  IF cleanedJson[1] = LK \/ cleanedJson = <<LB, RB>>
  THEN {NoFields}
  ELSE { Fields(t, c) : t \in FieldValues, c \in FieldValues }

\* !v
Falsy(v) == v.kind \in {"undefined", "null"}

\* Array.isArray(v)
IsArray(v) == v.kind = "array"

\* the normalization with the falsy test only
NormalizeListFalsyOnly(v) == IF Falsy(v) THEN EmptyList ELSE v

\* if (!v || !Array.isArray(v)) v = []
NormalizeList(v) == IF Falsy(v) \/ ~IsArray(v) THEN EmptyList ELSE v

\* the defensive normalization of both lists
Normalized(f) == Fields(NormalizeList(f.takeoff), NormalizeList(f.catalog))

(***************************************************************************)
(* identifyKeyPages: the resolver of sheet labels to page indices          *)
(***************************************************************************)
\* a member the reply leaves out (undefined)
Undef == <<"undefined">>

\* s.replace(/[\s\-\.]/g, '')
StripSeparators(s) == SelectSeq(s, LAMBDA c : c \notin {SP, "-", "."})

\* String.prototype.includes for a text
IncludesText(s, sub) ==
  \E i \in 0..(Len(s) - Len(sub)) : SubSeq(s, i + 1, i + Len(sub)) = sub

\* the matches of searchStr: the indices (0-based, ascending) of the pages
\* whose stripped text includes it; i is the loop variable
RECURSIVE MatchList(_, _, _)
MatchList(texts, searchStr, i) ==
  IF i >= Len(texts) THEN <<>>
  ELSE (IF IncludesText(StripSeparators(texts[i + 1]), searchStr) THEN <<i>> ELSE <<>>)
       \o MatchList(texts, searchStr, i + 1)

\* the first match instead of the last
FirstMatch(matches) == matches[1]

\* matches[matches.length - 1]
LastMatch(matches) == matches[Len(matches)]

\* the chosen index without the guard against the scanned range
BestIndexNoGuard(matches, scanRange, numTexts) ==
  IF Len(matches) > 0 THEN LastMatch(matches) ELSE -1

\* bestIndex: the last match, or -1 when there is no match or when the last
\* match lies in the scanned range of a longer document
BestIndex(matches, scanRange, numTexts) ==
  IF Len(matches) > 0
  THEN IF LastMatch(matches) < scanRange /\ numTexts > scanRange
       THEN -1
       ELSE LastMatch(matches)
  ELSE -1

\* a key sheet of the reply, and a resolved key page
KeySheet(n, d) == [sheetNumber |-> n, description |-> d, category |-> "Signage"]

\* an entry that carries the 1-based page number instead of the index
KeyPageNumber(item, i) ==
  [sheetNumber |-> item.sheetNumber, description |-> item.description,
   category |-> item.category, pageIndex |-> i + 1]

KeyPage(item, i) ==
  [sheetNumber |-> item.sheetNumber, description |-> item.description,
   category |-> item.category, pageIndex |-> i]

\* Math.min(3, pdf.numPages): the pages rendered for the scan
scanLimit == 3

\* most pages of a document, most key sheets of a reply
MaxPages == 4
MaxSheets == 2

\* raw page texts: no text, an index page listing two sheets, and the two
\* sheets themselves
PagePool ==
  { <<>>,
    <<"A", "-", "1", SP, "A", ".", "2">>,
    <<"A", SP, "1">>,
    <<"A", "2">> }

\* sheet labels of a reply: two sheets, a label of separators only, a sheet
\* that is on no page, and a missing label
LabelPool ==
  { <<"A", "-", "1">>, <<"A", ".", "2">>, <<"-">>, <<"B">>, Undef }

Documents == SeqsUpTo(PagePool, MaxPages) \ {<<>>}

KeySheetLists ==
  SeqsUpTo({KeySheet(n, d) : n \in LabelPool, d \in {"d"}}, MaxSheets)

(***************************************************************************)
(* processVisuals: linking catalog images to inventory items               *)
(***************************************************************************)
UpperCase == <<"A", "B", "E", "G", "I", "N", "P", "S", "T", "Y">>
LowerCase == <<"a", "b", "e", "g", "i", "n", "p", "s", "t", "y">>

\* String.prototype.toLowerCase
ToLowerCase(s) ==
  [i \in 1..Len(s) |->
     IF \E k \in 1..Len(UpperCase) : UpperCase[k] = s[i]
     THEN LowerCase[CHOOSE k \in 1..Len(UpperCase) : UpperCase[k] = s[i]]
     ELSE s[i]]

\* s.replace(/sign|type|[\s\-\.]/g, ""): one pass from the left
RECURSIVE RemoveTokens(_)
RemoveTokens(s) ==
  IF s = <<>> THEN <<>>
  ELSE IF Len(s) >= 4 /\ SubSeq(s, 1, 4) \in {<<"s", "i", "g", "n">>, <<"t", "y", "p", "e">>}
  THEN RemoveTokens(SubSeq(s, 5, Len(s)))
  ELSE IF Head(s) \in {SP, "-", "."} THEN RemoveTokens(Tail(s))
  ELSE <<Head(s)>> \o RemoveTokens(Tail(s))

\* normalize
normalize(s) == RemoveTokens(ToLowerCase(s))

\* no image (designImage undefined), and the image cropped for the entry in
\* place k of the catalog
NoImage == <<>>

ImageOf(k) == <<"img", k>>

\* a Map<string, string> as the sequence of its entries in insertion order
MapHas(m, k) == \E i \in 1..Len(m) : m[i].key = k

MapGet(m, k) == m[CHOOSE i \in 1..Len(m) : m[i].key = k].val

MapSet(m, k, v) ==
  IF MapHas(m, k)
  THEN [i \in 1..Len(m) |-> IF m[i].key = k THEN [key |-> k, val |-> v] ELSE m[i]]
  ELSE Append(m, [key |-> k, val |-> v])

\* a string that is present and not empty
Truthy(s) == s # Undef /\ s # <<>>

\* the forEach over the catalog from entry i on: designMap, fuzzyKeys and
\* whether reading the type code of an entry raised a TypeError
RECURSIVE CatalogMaps(_, _, _, _)
CatalogMaps(catalog, i, designMap, fuzzyKeys) ==
  IF i > Len(catalog)
  THEN [designMap |-> designMap, fuzzyKeys |-> fuzzyKeys, thrown |-> FALSE]
  ELSE LET c == catalog[i] IN
       IF c.designImage = NoImage THEN CatalogMaps(catalog, i + 1, designMap, fuzzyKeys)
       ELSE IF c.typeCode = Undef
       THEN [designMap |-> designMap, fuzzyKeys |-> fuzzyKeys, thrown |-> TRUE]
       ELSE LET d1 == MapSet(designMap, ToLowerCase(c.typeCode), c.designImage)
                d2 == IF Truthy(c.description)
                      THEN MapSet(d1, ToLowerCase(c.description), c.designImage)
                      ELSE d1
                f2 == IF Truthy(c.typeCode)
                      THEN MapSet(fuzzyKeys, normalize(c.typeCode), c.designImage)
                      ELSE fuzzyKeys
            IN CatalogMaps(catalog, i + 1, d2, f2)

\* the loop over fuzzyKeys.entries() from entry i on: the place of the first
\* key that includes normKey or is included in it, 0 when there is none
RECURSIVE PartialIndex(_, _, _)
PartialIndex(normKey, fuzzyKeys, i) ==
  IF i > Len(fuzzyKeys) THEN 0
  ELSE IF \/ IncludesText(normKey, fuzzyKeys[i].key)
          \/ IncludesText(fuzzyKeys[i].key, normKey)
  THEN i
  ELSE PartialIndex(normKey, fuzzyKeys, i + 1)

\* the image that loop assigns, NoImage when it assigns none
PartialMatch(normKey, fuzzyKeys, i) ==
  IF PartialIndex(normKey, fuzzyKeys, i) = 0 THEN NoImage
  ELSE fuzzyKeys[PartialIndex(normKey, fuzzyKeys, i)].val

\* the step of the callback that resolves a type code: A (exact), B (fuzzy),
\* the partial loop, or none
ResolveStep(signType, designMap, fuzzyKeys) ==
  IF MapHas(designMap, ToLowerCase(signType)) THEN "exact"
  ELSE IF MapHas(fuzzyKeys, normalize(signType)) THEN "normalized"
  ELSE IF PartialIndex(normalize(signType), fuzzyKeys, 1) # 0 THEN "substring"
  ELSE "none"

\* the callback of the map over the takeoff, for an item with a type code
LinkItem(item, designMap, fuzzyKeys) ==
  LET key == ToLowerCase(item.signType)
      normKey == normalize(item.signType)
      step == ResolveStep(item.signType, designMap, fuzzyKeys)
  IN CASE step = "exact" -> [item EXCEPT !.designImage = MapGet(designMap, key)]
       [] step = "normalized" -> [item EXCEPT !.designImage = MapGet(fuzzyKeys, normKey)]
       [] step = "substring" ->
            [item EXCEPT !.designImage = PartialMatch(normKey, fuzzyKeys, 1)]
       [] OTHER -> item

\* the map over the takeoff from item i on: the items as the callbacks leave
\* them, and whether reading the type code of an item raised a TypeError
\* (each callback is async: one that throws leaves its item alone and makes
\* Promise.all reject, the others still run)
RECURSIVE LinkItems(_, _, _, _)
LinkItems(takeoff, i, designMap, fuzzyKeys) ==
  IF i > Len(takeoff) THEN [takeoff |-> takeoff, thrown |-> FALSE]
  ELSE IF takeoff[i].signType = Undef
  THEN [takeoff |-> LinkItems(takeoff, i + 1, designMap, fuzzyKeys).takeoff,
        thrown |-> TRUE]
  ELSE LinkItems([takeoff EXCEPT ![i] = LinkItem(takeoff[i], designMap, fuzzyKeys)],
                 i + 1, designMap, fuzzyKeys)

\* most catalog entries and most inventory items of a result
MaxCatalog == 2
MaxItems == 1

\* type codes: a code, the same code spelled with "Sign", a longer code
\* that holds it, another code, a code of removable text only, the empty
\* code and a missing code
TypeCodes ==
  { <<"A", "-", "1">>,
    <<"S", "i", "g", "n", SP, "A", "1">>,
    <<"a", "1", "b">>,
    <<"B">>,
    <<"T", "Y", "P", "E">>,
    <<>>,
    Undef }

CatalogEntry(t, d, img) == [typeCode |-> t, description |-> d, designImage |-> img]

\* the entries a catalog may hold in place k after the cropping step, with
\* their image or none; one entry is described by another entry's code
EntriesAt(k) ==
  { CatalogEntry(t, Undef, img) : t \in TypeCodes, img \in {NoImage, ImageOf(k)} }
  \cup { CatalogEntry(<<"B">>, <<"A", "-", "1">>, img) : img \in {NoImage, ImageOf(k)} }

RECURSIVE CatalogsOfLen(_)
CatalogsOfLen(n) ==
  IF n = 0 THEN {<<>>}
  ELSE {Append(c, e) : c \in CatalogsOfLen(n - 1), e \in EntriesAt(n)}

Catalogs == UNION {CatalogsOfLen(n) : n \in 0..MaxCatalog}

Item(t) == [signType |-> t, designImage |-> NoImage]

Takeoffs == SeqsUpTo({Item(t) : t \in TypeCodes}, MaxItems)

(***************************************************************************)
(* cropImage.  Boxes are [ymin, xmin, ymax, xmax] on the 0..1000 grid, the *)
(* padding ratio is given in hundredths, and pixel quantities are kept as  *)
(* integers in units of 1/Scale pixel, so that the arithmetic is exact.    *)
(***************************************************************************)
Scale == 1000 * 100

\* a coordinate read on a grid ten times finer
ToPixelsFine(n100, dim) == (n100 * dim) \div 10

\* (n / 1000) * dim, for n given in hundredths of a grid unit
ToPixels(n100, dim) == n100 * dim

\* (max - min) * paddingPct, in hundredths of a grid unit
Padding(lo, hi, pct) == (hi - lo) * pct

\* pixelX or pixelY before the clamp
PixelOrigin(lo, hi, pct, dim) == ToPixels(lo * 100 - Padding(lo, hi, pct), dim)

\* pixelW or pixelH before the clamp
PixelSize(lo, hi, pct, dim) ==
  ToPixels(hi * 100 + Padding(lo, hi, pct), dim) - PixelOrigin(lo, hi, pct, dim)

\* Math.max(0, pixelX)
ClampOrigin(lo, hi, pct, dim) == Max(0, PixelOrigin(lo, hi, pct, dim))

\* pixelW or pixelH left as computed, without the clamp to the image
UnclampedSize(lo, hi, pct, dim) == PixelSize(lo, hi, pct, dim)

\* Math.min(img.width - pixelX, pixelW)
ClampSize(lo, hi, pct, dim) ==
  Min(dim * Scale - ClampOrigin(lo, hi, pct, dim), PixelSize(lo, hi, pct, dim))

\* a crop rectangle, and resolve(undefined)
Rect(x, y, w, h) == [x |-> x, y |-> y, w |-> w, h |-> h]

NoCrop == Rect(0, 0, 0, 0)

\* cropImage without the check of the size
cropImageUnchecked(img, bbox, pct, ctx) ==
  LET pixelX == ClampOrigin(bbox[2], bbox[4], pct, img.width)
      pixelY == ClampOrigin(bbox[1], bbox[3], pct, img.height)
      pixelW == ClampSize(bbox[2], bbox[4], pct, img.width)
      pixelH == ClampSize(bbox[1], bbox[3], pct, img.height)
  IN IF ctx THEN Rect(pixelX, pixelY, pixelW, pixelH) ELSE NoCrop

\* cropImage: the rectangle drawn from img, NoCrop when it resolves with
\* undefined; ctx tells whether the canvas gave a 2d context
cropImage(img, bbox, pct, ctx) ==
  LET pixelX == ClampOrigin(bbox[2], bbox[4], pct, img.width)
      pixelY == ClampOrigin(bbox[1], bbox[3], pct, img.height)
      pixelW == ClampSize(bbox[2], bbox[4], pct, img.width)
      pixelH == ClampSize(bbox[1], bbox[3], pct, img.height)
  IN IF pixelW <= 0 \/ pixelH <= 0 THEN NoCrop
     ELSE IF ctx THEN Rect(pixelX, pixelY, pixelW, pixelH)
     ELSE NoCrop

\* an image index that falls back to the first image whatever their number
FirstImageIndex(declared, numImages) ==
  IF declared # {} THEN declared
  ELSE IF numImages >= 1 THEN {0}
  ELSE {}

\* the image index the catalog callback uses: the declared one, 0 for the
\* only image, the last image of several; {} when it stays undefined
ImageIndex(declared, numImages) ==
  IF declared # {} THEN declared
  ELSE IF numImages = 1 THEN {0}
  ELSE IF numImages > 1 THEN {numImages - 1}
  ELSE {}

\* the callback of the map over the catalog: the entry it returns
CropTypeDef(typeDef, loadedImages, pct, ctx) ==
  LET imgIndex == ImageIndex(typeDef.imageIndex, Len(loadedImages)) IN
  IF /\ Len(typeDef.boundingBox) = 4
     /\ imgIndex # {}
     /\ \A i \in imgIndex : i >= 0 /\ i < Len(loadedImages)
  THEN LET i == CHOOSE i \in imgIndex : TRUE
           designImage == cropImage(loadedImages[i + 1], typeDef.boundingBox, pct, ctx)
       IN IF designImage # NoCrop
          THEN [typeDef EXCEPT !.designImage = designImage]
          ELSE typeDef
  ELSE typeDef

\* greatest width and height of an image, in pixels
MaxDim == 3

Images == {[width |-> w, height |-> h] : w \in 1..MaxDim, h \in 1..MaxDim}

\* the loaded images: the target sheet alone, or a reference page and the
\* target sheet
ImageLists == {<<a>> : a \in Images} \cup {<<a, b>> : a \in Images, b \in Images}

\* grid coordinates of a box
Coords == {0, 500, 1000}

\* boxes: none, too short, and every box over Coords, degenerate and
\* inverted ones included
Boxes ==
  {<<>>, <<0, 0, 500>>}
  \cup {<<ymin, xmin, ymax, xmax>> : ymin \in Coords, xmin \in Coords,
                                     ymax \in Coords, xmax \in Coords}

\* a declared image index: none, or a number
Indices == {{}, {-1}, {0}, {1}, {2}}

\* the padding ratios of the callers, in hundredths: the manual crop, the
\* older and the newer catalog crop
ManualPadding == 0
ServicePaddings == {15, 20}

TypeDef(b, i) == [boundingBox |-> b, imageIndex |-> i, designImage |-> NoCrop]

(***************************************************************************)
(* The project state of App and the editable table                         *)
(***************************************************************************)
\* an inventory item; oid tells one object from another (===)
Row(oid, sheet, signType, quantity) ==
  [oid |-> oid, sheet |-> sheet, signType |-> signType, quantity |-> quantity,
   notes |-> "", designImage |-> NoImage]

\* an analysis result, and null
Result(takeoff, catalog) == <<[takeoff |-> takeoff, catalog |-> catalog]>>

NoResult == <<>>

\* the catalog map of handleAddToProject initialised with the master catalog
\* from entry i on
RECURSIVE CatalogMapOf(_, _, _)
CatalogMapOf(prevCatalog, i, catalogMap) ==
  IF i > Len(prevCatalog) THEN catalogMap
  ELSE CatalogMapOf(prevCatalog, i + 1,
         MapSet(catalogMap, ToLowerCase(prevCatalog[i].typeCode), prevCatalog[i]))

\* the upsert of the incoming entries from entry i on: the map, and the
\* incoming entries as the upsert leaves them (an entry without image takes
\* the image of the entry it replaces)
RECURSIVE Upsert(_, _, _, _)
Upsert(catalogMap, incoming, i, seen) ==
  IF i > Len(incoming) THEN [map |-> catalogMap, incoming |-> seen]
  ELSE LET c == incoming[i]
           key == ToLowerCase(c.typeCode)
           keep == /\ MapHas(catalogMap, key)
                   /\ MapGet(catalogMap, key).designImage # NoImage
                   /\ c.designImage = NoImage
           c2 == IF keep
                 THEN [c EXCEPT !.designImage = MapGet(catalogMap, key).designImage]
                 ELSE c
       IN Upsert(MapSet(catalogMap, key, c2), incoming, i + 1, Append(seen, c2))

\* Array.from(catalogMap.values())
MapValues(m) == [i \in 1..Len(m) |-> m[i].val]

\* a merge that appends the new items and removes nothing
AppendTakeoff(prevMaster, takeoff) == prevMaster \o takeoff

\* the master takeoff after handleAddToProject
MergeTakeoff(prevMaster, takeoff) ==
  SelectSeq(prevMaster,
            LAMBDA item : \A k \in 1..Len(takeoff) : takeoff[k].sheet # item.sheet)
  \o takeoff

\* list.map(item => item === itemToUpdate ? { ...item, ...updates } : item),
\* the new object being oid
UpdateItem(list, itemToUpdate, field, value, oid) ==
  [i \in 1..Len(list) |->
     IF list[i] = itemToUpdate
     THEN [list[i] EXCEPT ![field] = value, !.oid = oid]
     ELSE list[i]]

\* what is typed into a cell
Texts == {"", "-1", "x"}

\* Number(text), {} for NaN
NumberOf(t) ==
  CASE t = "" -> {0} [] t = "-1" -> {-1} [] t = "0" -> {0}
    [] t = "1" -> {1} [] t = "2" -> {2} [] OTHER -> {}

\* parseInt(text), {} for NaN
ParseInt(t) == IF t = "" THEN {} ELSE NumberOf(t)

\* String(n) for a quantity
TextOf(n) ==
  CASE n = -1 -> "-1" [] n = 0 -> "0" [] n = 1 -> "1" [] n = 2 -> "2" [] OTHER -> "x"

\* Number(editValue) || 0
FinalQuantity(editValue) ==
  IF NumberOf(editValue) = {} THEN 0 ELSE CHOOSE n \in NumberOf(editValue) : TRUE

\* e.target.value of the cell's input: an input of type number gives the
\* empty text for what is not a number
InputValue(field, typed) ==
  IF field = "quantity" /\ typed # "" /\ NumberOf(typed) = {} THEN "" ELSE typed

\* most objects (inventory items and catalog entries) ever created, most
\* rows of an analysis result, most entries of its catalog
MaxObjects == 4
MaxRows == 2
MaxEntries == 2

\* the rows of a result, given the oids base + 1, base + 2, ...
RowLists(base, maxRows) ==
  LET pool == {[sheet |-> s, quantity |-> q] : s \in {"S1", "S2"}, q \in {1}}
      lists == SeqsUpTo(pool, maxRows)
  IN {[i \in 1..Len(l) |-> Row(base + i, l[i].sheet, <<"A">>, l[i].quantity)] : l \in lists}

\* the catalogs of a result: codes that differ in case only and another
\* code, two descriptions, with or without image
EntryLists(maxEntries) ==
  SeqsUpTo({CatalogEntry(t, d, img) :
              t \in {<<"A">>, <<"a">>, <<"B">>},
              d \in {<<"d", "1">>, <<"d", "2">>},
              img \in {NoImage, ImageOf(1)}},
           maxEntries)

(***************************************************************************)
(* The session of App: documents, indexing passes, pages and analyses      *)
(***************************************************************************)
\* most documents uploaded, most analyses started, pages of a document
MaxDocs == 3
MaxAnalyses == 2
PagesPerDoc == 2

DocIds == 1..MaxDocs

AnalysisIds == 1..MaxAnalyses

DEFAULT_SETTINGS == [autoStrategy |-> TRUE, keyPages |-> <<>>]

\* the key pages the indexing pass of document d detects; doc records the
\* document they were computed from
DetectedKeys(d) ==
  <<[sheetNumber |-> <<"A", "1">>, pageIndex |-> 1, doc |-> d]>>

\* an invocation of startAnalysis that has not begun
NoAnalysis ==
  [stage |-> "none", aborted |-> FALSE, page |-> 0, cancelled |-> FALSE,
   published |-> "none"]

\* item.pageNumber = n
WithPage(item, n) ==
  [f \in DOMAIN item \cup {"pageNumber"} |-> IF f = "pageNumber" THEN n ELSE item[f]]

\* the result of analysis a with the page number injected
PagedResult(a, page) ==
  Result(<<WithPage(Row(a, "S1", <<"A">>, 1), page + 1)>>, <<>>)

(***************************************************************************)
(* State                                                                   *)
(***************************************************************************)
VARIABLES
  text,     \* the text handed to cleanAndRepairJson
  stage,    \* how text was obtained: "valid", "padded", "fenced",
            \* "braceRemoved", "truncated", "commaDropped", "raw"
  repaired, \* cleanAndRepairJson has returned
  out,      \* what it returned
  pc,       \* where the invocation of analyzeDrawing stands: "idle", "loop",
            \* "inflight" (awaiting generateContent), "visuals" (awaiting
            \* processVisuals), "delay" (awaiting the backoff timer), "done"
  attempts, \* the local variable attempts
  lastError,\* the local variable lastError (a message, <<>> when unset)
  aborted,  \* signal.aborted
  response, \* the last reply of the model
  waitLeft, \* seconds left on the backoff timer
  elapsed,  \* seconds spent in backoff so far
  outcome,  \* how the invocation ended
  log,      \* what the invocation did, in order
  parsed,   \* what JSON.parse found under takeoff and catalog
  result,   \* the local variable result after the defensive normalization
  pageTexts,    \* identifyKeyPages: the raw text of every page
  tocScanRange, \* the number of pages scanned for the index
  identified,   \* the key sheets of the reply
  kpos,         \* the position of the resolver's loop in identified
  keyPages,     \* the resolved key pages
  kpc,          \* where identifyKeyPages stands: "idle", "request",
                \* "resolving", "done", "failed" (an error was caught)
  vCatalog,     \* processVisuals: result.catalog after the cropping step
  vTakeoff,     \* result.takeoff
  vpc,          \* where processVisuals stands: "idle", "linking",
                \* "returned", "thrown"
  cImages,      \* cropImage: the loaded images
  cTypeDef,     \* the catalog entry whose image is cropped
  cPad,         \* the padding ratio of the call, in hundredths
  cCtx,         \* whether the canvas gave a 2d context
  cpc,          \* which caller ran: "idle", "start", "entry" (processVisuals),
                \* "manual" (handleAssignToType)
  analysisResult,  \* App: the state analysisResult, <<>> for null
  masterTakeoff,   \* the state masterTakeoff
  masterCatalog,   \* the state masterCatalog
  viewMode,        \* the state viewMode: "current" or "master"
  editingLocation, \* the table's state editingLocation, <<>> for null
  editValue,       \* the table's state editValue, as text
  nextOid,         \* the number of item and entry objects created so far
  lastMerge,       \* the master catalog and the incoming catalog as they
                   \* were before handleAddToProject, if it ran last
  pdfDocRef,          \* pdfDocRef.current: the loaded document, 0 for null
  numPages,           \* the state numPages
  currentPageIndex,   \* the state currentPageIndex
  appState,           \* the state appState
  settings,           \* the state settings (its keyPages)
  isProcessingKeyPages, \* the state isProcessingKeyPages
  uploads,            \* per document, where its handleFileLoad stands: "none",
                      \* "loading" (awaiting loadPdfDocument), "rendering"
                      \* (awaiting loadPageForDisplay), "done"
  passes,             \* per document, its background indexing pass: "none",
                      \* "running", "done"
  abortControllerRef, \* abortControllerRef.current: the analysis whose
                      \* controller it holds, 0 for null
  analyses            \* per invocation of startAnalysis: where it stands
                      \* ("none", "prep", "model", "visuals", "done"), its
                      \* signal, the page it captured, whether cancelAnalysis
                      \* aborted it, and what it published when it ended

rvars == <<text, stage, repaired, out>>

avars == <<pc, attempts, lastError, aborted, response, waitLeft, elapsed, outcome, log,
          parsed, result>>

\* the local variables of the try block
dvars == <<parsed, result>>

kvars == <<pageTexts, tocScanRange, identified, kpos, keyPages, kpc>>

vvars == <<vCatalog, vTakeoff, vpc>>

cvars == <<cImages, cTypeDef, cPad, cCtx, cpc>>

pvars == <<analysisResult, masterTakeoff, masterCatalog, viewMode,
           editingLocation, editValue, nextOid, lastMerge>>

svars == <<pdfDocRef, numPages, currentPageIndex, appState, settings,
           isProcessingKeyPages, uploads, passes, abortControllerRef, analyses>>

\* what the actions of analyzeDrawing leave alone
restA == <<rvars, kvars, vvars, cvars, pvars, svars>>

\* what the actions on the repair parser leave alone
restR == <<avars, kvars, vvars, cvars, pvars, svars>>

\* what the actions of identifyKeyPages leave alone
restK == <<rvars, avars, vvars, cvars, pvars, svars>>

\* what the actions of processVisuals leave alone
restV == <<rvars, avars, kvars, cvars, pvars, svars>>

\* what the callers of cropImage leave alone
restC == <<rvars, avars, kvars, vvars, pvars, svars>>

\* what the handlers of App and of the table leave alone
restP == <<rvars, avars, kvars, vvars, cvars, svars>>

\* what the handlers of the session (documents, pages, analyses) leave alone
restS == <<rvars, avars, kvars, vvars, cvars, editingLocation, editValue, nextOid, lastMerge>>

vars == <<rvars, avars, kvars, vvars, cvars, pvars, svars>>

\* no text is under repair
RepairIdle ==
  text = <<>> /\ stage = "none" /\ repaired = FALSE /\ out = <<>>

\* analyzeDrawing is not running
AnalysisIdle ==
  /\ pc = "idle" /\ attempts = 0 /\ lastError = <<>> /\ aborted = FALSE
  /\ response = NoReply /\ waitLeft = 0 /\ elapsed = 0
  /\ outcome = NoOutcome /\ log = <<>>
  /\ parsed = NoFields /\ result = NoFields

\* identifyKeyPages is not running
KeyPagesIdle ==
  /\ pageTexts = <<>> /\ tocScanRange = 0 /\ identified = <<>>
  /\ kpos = 0 /\ keyPages = <<>> /\ kpc = "idle"

\* processVisuals is not running
VisualsIdle ==
  vCatalog = <<>> /\ vTakeoff = <<>> /\ vpc = "idle"

\* cropImage is not running
CropIdle ==
  /\ cImages = <<>> /\ cTypeDef = TypeDef(<<>>, {})
  /\ cPad = 0 /\ cCtx = TRUE /\ cpc = "idle"

\* App holds an empty project and no cell is edited
AppIdle ==
  /\ analysisResult = NoResult /\ masterTakeoff = <<>> /\ masterCatalog = <<>>
  /\ viewMode = "current" /\ editingLocation = <<>> /\ editValue = ""
  /\ nextOid = 0 /\ lastMerge = <<>>

\* no document is loaded and no upload, indexing pass or analysis runs
SessionIdle ==
  /\ pdfDocRef = 0 /\ numPages = 0 /\ currentPageIndex = 0
  /\ appState = "IDLE" /\ settings = DEFAULT_SETTINGS
  /\ isProcessingKeyPages = FALSE
  /\ uploads = [d \in DocIds |-> "none"]
  /\ passes = [d \in DocIds |-> "none"]
  /\ abortControllerRef = 0
  /\ analyses = [a \in AnalysisIds |-> NoAnalysis]

\* every component but g is at rest
IdleBut(g) ==
  /\ IF g = "r" THEN TRUE ELSE RepairIdle
  /\ IF g = "a" THEN TRUE ELSE AnalysisIdle
  /\ IF g = "k" THEN TRUE ELSE KeyPagesIdle
  /\ IF g = "v" THEN TRUE ELSE VisualsIdle
  /\ IF g = "c" THEN TRUE ELSE CropIdle
  /\ IF g = "p" THEN TRUE ELSE AppIdle
  /\ IF g = "s" THEN TRUE ELSE SessionIdle

(***************************************************************************)
(* The repair parser on valid, damaged and raw texts                       *)
(***************************************************************************)
InitRepair ==
  /\ \/ text \in Docs /\ stage = "valid"
     \/ text \in RawTexts /\ stage = "raw"
  /\ repaired = FALSE
  /\ out = <<>>
  /\ IdleBut("r")

\* a valid text with whitespace around it is still valid JSON
PadWhitespace ==
  /\ stage = "valid" /\ ~repaired
  /\ \E l \in {<<>>, <<SP>>}, r \in {<<>>, <<SP>>} :
       /\ l \o r # <<>>
       /\ text' = l \o text \o r
  /\ stage' = "padded"
  /\ UNCHANGED <<repaired, out>> /\ UNCHANGED restR

\* the reply wrapped in a Markdown code fence
WrapFence ==
  /\ stage = "valid" /\ ~repaired
  /\ \E open \in {Fence, FenceJson \o <<SP>>} : text' = open \o text \o <<SP>> \o Fence
  /\ stage' = "fenced"
  /\ UNCHANGED <<repaired, out>> /\ UNCHANGED restR

\* one closing brace is lost
RemoveBrace ==
  /\ stage = "valid" /\ ~repaired /\ JsonObject(text)
  /\ \E i \in 1..Len(text) :
       /\ text[i] = RB /\ OutsideString(text, i)
       /\ text' = SubSeq(text, 1, i - 1) \o SubSeq(text, i + 1, Len(text))
  /\ stage' = "braceRemoved"
  /\ UNCHANGED <<repaired, out>> /\ UNCHANGED restR

\* the reply is cut off after its first i characters
Truncate ==
  /\ stage = "valid" /\ ~repaired /\ JsonObject(text)
  /\ \E i \in 1..(Len(text) - 1) : text' = SubSeq(text, 1, i)
  /\ stage' = "truncated"
  /\ UNCHANGED <<repaired, out>> /\ UNCHANGED restR

\* the comma between two sibling objects or arrays is lost
DropComma ==
  /\ stage = "valid" /\ ~repaired
  /\ \E i \in 2..(Len(text) - 1) :
       /\ text[i] = CM /\ OutsideString(text, i)
       /\ <<text[i - 1], text[i + 1]>> \in {<<RB, LB>>, <<RK, LK>>}
       /\ text' = SubSeq(text, 1, i - 1) \o SubSeq(text, i + 1, Len(text))
  /\ stage' = "commaDropped"
  /\ UNCHANGED <<repaired, out>> /\ UNCHANGED restR

Repair ==
  /\ ~repaired
  /\ out' = cleanAndRepairJson(text)
  /\ repaired' = TRUE
  /\ UNCHANGED <<text, stage>> /\ UNCHANGED restR

NextRepair ==
  \/ PadWhitespace
  \/ WrapFence
  \/ RemoveBrace
  \/ Truncate
  \/ DropComma
  \/ Repair

SpecRepair == InitRepair /\ [][NextRepair]_vars

(***************************************************************************)
(* analyzeDrawing.  Each action is one synchronous run of the function     *)
(* between two awaits; the signal changes only while it awaits.            *)
(***************************************************************************)
Init ==
  /\ pc = "loop" /\ attempts = 0 /\ lastError = <<>>
  /\ aborted \in BOOLEAN
  /\ response = NoReply /\ waitLeft = 0 /\ elapsed = 0
  /\ outcome = NoOutcome /\ log = <<>>
  /\ parsed = NoFields /\ result = NoFields
  /\ IdleBut("a")

\* control enters the catch block with error, after the events evs
EnterCatch(error, evs) ==
  LET c == CatchBlock(error, attempts, lastError, aborted) IN
  /\ pc' = c.pc
  /\ attempts' = c.attempts
  /\ lastError' = c.lastError
  /\ outcome' = c.outcome
  /\ waitLeft' = c.wait \div 1000
  /\ log' = log \o evs \o c.events

\* the head of the while loop: the first checkpoint, then the request
LoopHead ==
  /\ pc = "loop"
  /\ IF attempts >= maxAttempts
     THEN /\ pc' = "done"
          /\ outcome' = Thrown(<<"Analysis failed after 3 attempts. Last error: ">> \o lastError)
          /\ log' = log
     ELSE IF aborted
     THEN /\ pc' = "done"
          /\ outcome' = Thrown(CancelledMsg)
          /\ log' = Append(log, Event("cancel", 1))
     ELSE /\ pc' = "inflight"
          /\ outcome' = outcome
          /\ log' = Append(log, Event("request", attempts))
  /\ UNCHANGED <<attempts, lastError, aborted, response, waitLeft, elapsed>>
  /\ UNCHANGED dvars
  /\ UNCHANGED restA

\* generateContent rejects
ModelRejects ==
  /\ pc = "inflight"
  /\ \E m \in ApiErrors : EnterCatch(m, <<Event("reject", 0)>>)
  /\ UNCHANGED <<aborted, response, elapsed>>
  /\ UNCHANGED dvars
  /\ UNCHANGED restA

\* generateContent resolves: the second checkpoint, the text and stop
\* reason checks, the repair and parse, the third checkpoint, and the call
\* of processVisuals
ModelReturns ==
  /\ pc = "inflight"
  /\ \E r \in Replies, syntaxError \in SyntaxErrors :
       LET t == ReplyText(r)
           cleanedJson == cleanAndRepairJson(t)
           got == <<Event("reply", 0)>>
       IN
       /\ response' = r
       /\ IF aborted
          THEN /\ EnterCatch(CancelledMsg, got \o <<Event("cancel", 2)>>)
               /\ parsed' = NoFields /\ result' = NoFields
          ELSE IF ReplyError(r) # <<>>
          THEN /\ EnterCatch(ReplyError(r),
                    got \o <<Event(IF r.hasCandidate /\ r.finishReason \notin {"", "STOP"}
                                   THEN "stopError" ELSE "noData", 0)>>)
               /\ parsed' = NoFields /\ result' = NoFields
          ELSE IF ~JsonParses(cleanedJson)
          THEN /\ EnterCatch(ParseFailedMsg(syntaxError),
                    got \o <<Event("repair", 0), Event("parseFail", 0)>>)
               /\ parsed' = NoFields /\ result' = NoFields
          ELSE IF cleanedJson[1] \notin {LB, LK}
          THEN /\ EnterCatch(PrimitiveError,
                    got \o <<Event("repair", 0), Event("parse", 0)>>)
               /\ parsed' = NoFields /\ result' = NoFields
          ELSE \E f \in ParsedFields(cleanedJson) :
                 /\ parsed' = f
                 /\ result' = Normalized(f)
                 /\ IF aborted
                    THEN EnterCatch(CancelledMsg,
                           got \o <<Event("repair", 0), Event("parse", 0), Event("cancel", 3)>>)
                    ELSE /\ pc' = "visuals"
                         /\ log' = log \o got \o <<Event("repair", 0), Event("parse", 0)>>
                         /\ UNCHANGED <<attempts, lastError, outcome, waitLeft>>
  /\ UNCHANGED <<aborted, elapsed>>
  /\ UNCHANGED restA

\* processVisuals resolves: the result is returned
VisualsReturn ==
  /\ pc = "visuals"
  /\ pc' = "done"
  /\ outcome' = Returned
  /\ UNCHANGED <<attempts, lastError, aborted, response, waitLeft, elapsed, log>>
  /\ UNCHANGED dvars
  /\ UNCHANGED restA

\* processVisuals rejects
VisualsThrow ==
  /\ pc = "visuals"
  /\ EnterCatch(VisualsError, <<>>)
  /\ UNCHANGED <<aborted, response, elapsed>>
  /\ UNCHANGED dvars
  /\ UNCHANGED restA

\* a second of the backoff delay passes
Tick ==
  /\ pc = "delay" /\ waitLeft > 0
  /\ waitLeft' = waitLeft - 1
  /\ elapsed' = elapsed + 1
  /\ UNCHANGED <<pc, attempts, lastError, aborted, response, outcome, log>>
  /\ UNCHANGED dvars
  /\ UNCHANGED restA

\* the timer of delay fires: continue
DelayDone ==
  /\ pc = "delay" /\ waitLeft = 0
  /\ pc' = "loop"
  /\ log' = Append(log, Event("waitDone", 0))
  /\ UNCHANGED <<attempts, lastError, aborted, response, waitLeft, elapsed, outcome>>
  /\ UNCHANGED dvars
  /\ UNCHANGED restA

\* the caller aborts the signal while analyzeDrawing awaits
Abort ==
  /\ pc \in {"inflight", "visuals", "delay"}
  /\ ~aborted
  /\ aborted' = TRUE
  /\ log' = Append(log, Event("abort", IF pc = "delay" THEN waitLeft ELSE 0))
  /\ UNCHANGED <<pc, attempts, lastError, response, waitLeft, elapsed, outcome>>
  /\ UNCHANGED dvars
  /\ UNCHANGED restA

Next ==
  \/ LoopHead
  \/ ModelRejects
  \/ ModelReturns
  \/ VisualsReturn
  \/ VisualsThrow
  \/ Tick
  \/ DelayDone
  \/ Abort

Spec == Init /\ [][Next]_vars

(***************************************************************************)
(* Properties of analyzeDrawing (specification Spec)                       *)
(***************************************************************************)
EventsOf(e) == {i \in 1..Len(log) : log[i].ev = e}

Requests == Cardinality(EventsOf("request"))

\* the backoff delays started so far, in milliseconds, in order
WaitTimes ==
  LET w == SelectSeq(log, LAMBDA x : x.ev = "wait")
  IN [i \in 1..Len(w) |-> w[i].n]

RECURSIVE Sum(_)
Sum(q) == IF q = <<>> THEN 0 ELSE Head(q) + Sum(Tail(q))

C1_WitnessExhausted ==
  /\ pc = "done" /\ Requests = 3 /\ outcome.kind = "thrown"
  /\ WaitTimes = <<2000, 4000>>

\* C2 (as claimed): after a JSON parse failure, a terminal stop-reason error
\* or a cancellation no further model request is issued and no backoff delay
\* is started, whatever the failure message contains.
C2_TerminalNotRetried ==
  \A i \in 1..Len(log) :
    log[i].ev \in {"parseFail", "stopError", "cancel"}
      => \A j \in (i + 1)..Len(log) : log[j].ev \notin {"request", "wait"}

\* C3: when a checkpoint (1 before the request, 2 after the model call
\* returned, 3 before post-processing) finds the signal set, the invocation
\* ends there with the cancelled outcome: no later request, no delay; with
\* the signal set at entry no request is issued at all.
C3_CheckpointCancels ==
  /\ \A i \in 1..Len(log) :
       (log[i].ev = "cancel" /\ log[i].n \in 1..3)
         => /\ i = Len(log)
            /\ pc = "done"
            /\ outcome = Thrown(CancelledMsg)
  /\ (aborted /\ EventsOf("abort") = {}) => (Requests = 0 /\ WaitTimes = <<>>)
  /\ (aborted /\ pc = "done" /\ outcome.kind = "thrown" /\ EventsOf("abort") = {})
       => outcome = Thrown(CancelledMsg)

\* C3 witness: the signal was set while the second request was in flight and
\* the checkpoint after the call ended the invocation as cancelled
C3_Witness ==
  /\ pc = "done" /\ Requests = 2
  /\ log[Len(log)] = Event("cancel", 2)
  /\ outcome = Thrown(CancelledMsg)

\* C4 (as claimed): once cancellation is signalled during a backoff delay
\* with time left on it, the delay stops: no further second of it passes and
\* it does not complete.
C4_DelayCutShort ==
  \A i \in 1..Len(log) :
    (log[i].ev = "abort" /\ log[i].n > 0)
      => /\ pc = "delay" => waitLeft = log[i].n
         /\ \A j \in (i + 1)..Len(log) : log[j].ev # "waitDone"

\* C10 (as claimed): a reply whose stop reason is neither STOP nor MAX_TOKENS
\* never leads to a returned result, with or without text.
C10_AbnormalStopIsError ==
  (response.hasCandidate /\ response.finishReason \notin {"", "STOP", "MAX_TOKENS"})
    => outcome # Returned

\* C11 (as claimed): after the model returned empty text and the "no data
\* returned" error was raised, no further model request is issued and no
\* backoff delay is started in that invocation.
C11_NoDataTerminal ==
  \A i \in EventsOf("noData") :
    \A j \in (i + 1)..Len(log) : log[j].ev \notin {"request", "wait"}

\* C11 (amended): the "no data returned" error is handled as a transient
\* failure: it counts an attempt and is followed at once by a backoff delay,
\* or by the cancelled outcome when the signal is set; only with the attempt
\* count at 3 does the invocation end there, with the "Analysis failed"
\* error that wraps the "no data returned" message.
C11_NoDataRetried ==
  \A i \in EventsOf("noData") :
    \/ /\ i < Len(log)
       /\ log[i + 1].ev = "wait"
    \/ /\ i + 1 = Len(log)
       /\ log[i + 1] = Event("cancel", 4)
       /\ outcome = Thrown(CancelledMsg)
    \/ /\ i = Len(log)
       /\ pc = "done"
       /\ attempts = maxAttempts
       /\ outcome = Thrown(FailedMsg(NoDataMsg))

\* C11 witness: an empty reply was followed by a second model request, which
\* returned a result
C11_Witness ==
  /\ outcome = Returned
  /\ \E i \in EventsOf("noData") : \E j \in EventsOf("request") : i < j

\* the position in log of the last reply of the model, 0 when there is none
LastReply ==
  IF EventsOf("reply") = {} THEN 0
  ELSE CHOOSE i \in EventsOf("reply") : \A j \in EventsOf("reply") : j <= i

\* C12: when the last reply carries the stop reason MAX_TOKENS and non-empty
\* text, and the checkpoint after the call did not cancel, the text goes to
\* cleanAndRepairJson and then to JSON.parse; no stop-reason error is raised.
C12_MaxTokensWithTextParsed ==
  ( /\ LastReply > 0
    /\ response.hasCandidate
    /\ response.finishReason = "MAX_TOKENS"
    /\ ReplyText(response) # <<>>
    /\ log[LastReply + 1] # Event("cancel", 2) )
  => /\ log[LastReply + 1].ev = "repair"
     /\ log[LastReply + 2].ev \in {"parse", "parseFail"}
     /\ \A j \in LastReply..Len(log) : log[j].ev # "stopError"
     /\ lastError \notin {MaxTokensMsg, StoppedMsg("MAX_TOKENS")}

\* C12 witness: a reply cut at the length limit, with text that the repair
\* completes, ended in a returned result
C12_Witness ==
  /\ outcome = Returned
  /\ response.hasCandidate
  /\ response.finishReason = "MAX_TOKENS"
  /\ ReplyText(response) = <<LB, QT, "a", QT, CL, "1">>

\* C13: from the defensive normalization on, and in every returned result,
\* takeoff and catalog are arrays: a member that JSON.parse found absent,
\* null or not an array is the empty list, an array is kept as parsed.
C13_ListsAreArrays ==
  (pc = "visuals" \/ outcome = Returned)
    => /\ IsArray(result.takeoff) /\ IsArray(result.catalog)
       /\ result.takeoff = (IF IsArray(parsed.takeoff) THEN parsed.takeoff ELSE EmptyList)
       /\ result.catalog = (IF IsArray(parsed.catalog) THEN parsed.catalog ELSE EmptyList)

\* C13 witness: a result was returned whose reply held an object under
\* takeoff and null under catalog
C13_Witness ==
  /\ outcome = Returned
  /\ parsed.takeoff.kind = "object"
  /\ parsed.catalog.kind = "null"

\* C25 (as claimed): when the signal is set while a model request is in
\* flight, the invocation ends cancelled whether the request then resolves
\* or rejects: it never returns a result and never throws any other error.
C25_CancelInFlightEndsCancelled ==
  \A i \in 2..Len(log) :
    (log[i].ev = "abort" /\ log[i - 1].ev = "request")
      => /\ outcome # Returned
         /\ pc = "done" => outcome = Thrown(CancelledMsg)

(***************************************************************************)
(* Properties of cleanAndRepairJson (specification SpecRepair)             *)
(***************************************************************************)
\* the positions of s holding closer, followed by opener with only
\* whitespace between
MissingCommas(s, closer, opener) ==
  {i \in 1..Len(s) :
     /\ s[i] = closer
     /\ \E j \in (i + 1)..Len(s) :
          s[j] = opener /\ \A k \in (i + 1)..(j - 1) : s[k] \in Ws}

\* the positions of s holding closer, comma, space, opener
Separated(s, closer, opener) ==
  {i \in 1..(Len(s) - 3) :
     s[i] = closer /\ s[i + 1] = CM /\ s[i + 2] = SP /\ s[i + 3] = opener}

\* the positions of t from its first "{" to its last "}" or "]"
Kept(t) == {i \in 1..Len(t) : IndexOf(t, LB) + 1 <= i /\ i <= Cutoff(t)}

KeptMissing(t, closer, opener) ==
  {i \in MissingCommas(t, closer, opener) :
     /\ i \in Kept(t)
     /\ \E j \in Kept(t) :
          j > i /\ t[j] = opener /\ \A k \in (i + 1)..(j - 1) : t[k] \in Ws}

KeptSeparated(t, closer, opener) ==
  {i \in Separated(t, closer, opener) : i \in Kept(t) /\ i + 3 \in Kept(t)}

\* C5 (as claimed): every valid JSON text is returned unchanged.
C5_ValidUnchanged ==
  (repaired /\ JsonParses(text)) => out = text

\* C5 (amended): a valid JSON object text without leading or trailing
\* whitespace, in which no "}" is followed by "{" and no "]" by "[" with only
\* whitespace between, is returned unchanged.
C5_ValidObjectUnchanged ==
  ( /\ repaired
    /\ JsonObject(text)
    /\ MissingCommas(text, RB, LB) = {}
    /\ MissingCommas(text, RK, LK) = {} )
    => out = text

\* C5 witness: a two-member object with a nested object and a string value
\* holding a closing brace came back unchanged
C5_Witness ==
  /\ repaired /\ stage = "valid" /\ JsonObject(text)
  /\ Len(text) >= 13
  /\ \E i \in 1..Len(text) : text[i] = RB /\ ~OutsideString(text, i)
  /\ out = text

\* C6 (as claimed): a valid JSON object text that lost one closing brace
\* comes back as the damaged text plus exactly one "}", and parses.
C6_MissingBraceAppended ==
  (repaired /\ stage = "braceRemoved")
    => (out = text \o <<RB>> /\ JsonParses(out))

\* C7 (as claimed): a valid JSON object text cut off right after a comma
\* (one that separates members or elements) comes back parseable, without
\* that trailing comma.
C7_TrailingCommaRepaired ==
  ( /\ repaired /\ stage = "truncated"
    /\ text[Len(text)] = CM /\ OutsideString(text, Len(text)) )
    => (JsonParses(out) /\ out[Len(out)] # CM)

\* C8 (as claimed): every "}"-"{" and "]"-"[" pair of the input with only
\* whitespace between has a comma between the two in the output; sibling
\* objects (arrays) of an array that lost their comma come back as a valid
\* document.
C8_CommaInsertedEverywhere ==
  repaired =>
    /\ Cardinality(Separated(out, RB, LB)) >= Cardinality(MissingCommas(text, RB, LB))
    /\ Cardinality(Separated(out, RK, LK)) >= Cardinality(MissingCommas(text, RK, LK))
    /\ stage = "commaDropped" => JsonParses(out)

\* C8 (amended): every such pair lying in the kept text (from the first "{"
\* to the last "}" or "]" of the input) gets ", " between the two, the kept
\* separators stay and the output has no such pair left; sibling values of an
\* array nested in the object that lost their comma come back as a valid
\* document, and "{}{}" comes back as "{}, {}", a valid 2-element array once
\* wrapped in brackets.
C8_CommaInsertedInKeptText ==
  LET t == BasicCleanup(text) IN
  (repaired /\ Includes(text, LB)) =>
    /\ MissingCommas(out, RB, LB) = {}
    /\ MissingCommas(out, RK, LK) = {}
    /\ Cardinality(Separated(out, RB, LB)) =
         Cardinality(KeptMissing(t, RB, LB)) + Cardinality(KeptSeparated(t, RB, LB))
    /\ Cardinality(Separated(out, RK, LK)) =
         Cardinality(KeptMissing(t, RK, LK)) + Cardinality(KeptSeparated(t, RK, LK))
    /\ (stage = "commaDropped" /\ text[1] = LB) => JsonParses(out)
    /\ text = <<LB, RB, LB, RB>>
         => (out = <<LB, RB, CM, SP, LB, RB>> /\ JsonParses(<<LK>> \o out \o <<RK>>))

\* C8 witness: an object whose array lost the comma between two sibling
\* objects came back with the comma, parseable
C8_Witness ==
  /\ repaired /\ stage = "commaDropped" /\ text[1] = LB
  /\ KeptMissing(text, RB, LB) # {}
  /\ Separated(out, RB, LB) # {}
  /\ JsonParses(out)

\* every character of the modelled alphabet
Chars ==
  {LB, RB, LK, RK, QT, BS, CM, CL, SP, BT, "1", "a", "j", "s", "o", "n"}

\* C9: cleanAndRepairJson returns a text for every input text, and returns
\* "{}" for every input without "{".
C9_TotalAndSoftFail ==
  repaired =>
    /\ out \in Seq(Chars)
    /\ ~Includes(text, LB) => out = <<LB, RB>>

\* C9 witness: a non-empty text without "{" that holds a closing brace was
\* answered with "{}"
C9_Witness ==
  /\ repaired /\ ~Includes(text, LB) /\ Includes(text, RB)
  /\ out = <<LB, RB>>

\* C31 (as claimed): for an input with "{", a scan of the output that keeps
\* track of string literals and escapes ends outside every string literal
\* and with every opened brace and bracket closed in LIFO order.
C31_OutputBalanced ==
  (repaired /\ Includes(text, LB))
    => LET r == Scan(out, 1, <<>>, FALSE, FALSE)
       IN r.stack = <<>> /\ ~r.inString

\* C32 (as claimed): for an input with "{", the output begins with "{".
C32_OutputBeginsWithBrace ==
  (repaired /\ Includes(text, LB)) => (out # <<>> /\ out[1] = LB)

(***************************************************************************)
(* identifyKeyPages on the text index of a document                        *)
(***************************************************************************)
InitKeyPages ==
  /\ pageTexts \in Documents
  /\ tocScanRange = Min(scanLimit, Len(pageTexts))
  /\ identified = <<>> /\ kpos = 0 /\ keyPages = <<>>
  /\ kpc = "request"
  /\ IdleBut("k")

\* generateContent settles: a rejection or a reply that JSON.parse refuses
\* is caught and [] returned, a reply without text returns [], any other
\* reply hands its key sheets to the resolver
KeyPagesReply ==
  /\ kpc = "request"
  /\ \/ /\ kpc' = "failed"
        /\ UNCHANGED <<identified, kpos>>
     \/ /\ kpc' = "done"
        /\ UNCHANGED <<identified, kpos>>
     \/ /\ identified' \in KeySheetLists
        /\ kpos' = 1
        /\ kpc' = "resolving"
  /\ UNCHANGED <<pageTexts, tocScanRange, keyPages>>
  /\ UNCHANGED restK

\* one pass of the loop over the identified sheets
ResolveItem ==
  /\ kpc = "resolving" /\ kpos <= Len(identified)
  /\ LET item == identified[kpos]
         searchStr == StripSeparators(item.sheetNumber)
         matches == MatchList(pageTexts, searchStr, 0)
         bestIndex == BestIndex(matches, tocScanRange, Len(pageTexts))
     IN IF item.sheetNumber = Undef
        THEN \* TypeError, caught: [] is returned
             /\ kpc' = "failed" /\ keyPages' = <<>> /\ kpos' = kpos
        ELSE /\ kpc' = kpc /\ kpos' = kpos + 1
             /\ keyPages' = IF searchStr # <<>> /\ bestIndex # -1
                            THEN Append(keyPages, KeyPage(item, bestIndex))
                            ELSE keyPages
  /\ UNCHANGED <<pageTexts, tocScanRange, identified>>
  /\ UNCHANGED restK

\* the loop is over: keyPages is returned
ReturnKeyPages ==
  /\ kpc = "resolving" /\ kpos > Len(identified)
  /\ kpc' = "done"
  /\ UNCHANGED <<pageTexts, tocScanRange, identified, kpos, keyPages>>
  /\ UNCHANGED restK

NextKeyPages ==
  \/ KeyPagesReply
  \/ ResolveItem
  \/ ReturnKeyPages

SpecKeyPages == InitKeyPages /\ [][NextKeyPages]_vars

(***************************************************************************)
(* Properties of the key-page resolver (specification SpecKeyPages)        *)
(***************************************************************************)
\* the pages (0-based) whose text holds the label, separators apart
Occurrences(label) ==
  {i \in 0..(Len(pageTexts) - 1) :
     IncludesText(StripSeparators(pageTexts[i + 1]), StripSeparators(label))}

\* the greatest member of a non-empty set of numbers
Greatest(S) == CHOOSE i \in S : \A j \in S : j <= i

\* the sheets the resolver has been through
Resolved ==
  IF kpc \in {"resolving", "done"} THEN 1..Min(kpos - 1, Len(identified)) ELSE {}

EntriesOf(label) == {j \in 1..Len(keyPages) : keyPages[j].sheetNumber = label}

\* C14: in a document with more pages than were scanned for the index, no
\* entry points into the scanned range, and a sheet whose last occurrence
\* lies in that range has no entry.
C14_NoEntryInScanRange ==
  Len(pageTexts) > tocScanRange
    => /\ \A j \in 1..Len(keyPages) : keyPages[j].pageIndex >= tocScanRange
       /\ \A k \in Resolved :
            LET label == identified[k].sheetNumber IN
            (Occurrences(label) # {} /\ Greatest(Occurrences(label)) < tocScanRange)
              => EntriesOf(label) = {}

\* C14 witness: a four-page document whose index page 0 alone names sheet
\* A-1: the sheet was resolved and dropped, another sheet got its entry
C14_Witness ==
  /\ kpc = "done"
  /\ Len(pageTexts) > tocScanRange
  /\ keyPages # <<>>
  /\ \E k \in Resolved :
       /\ identified[k].sheetNumber = <<"A", "-", "1">>
       /\ Occurrences(<<"A", "-", "1">>) = {0}

\* C15: the page index of every entry is the greatest index of a page whose
\* text holds the sheet label.
C15_LastMatchChosen ==
  \A j \in 1..Len(keyPages) :
    LET occ == Occurrences(keyPages[j].sheetNumber) IN
    /\ occ # {}
    /\ keyPages[j].pageIndex = Greatest(occ)

\* C15 witness: an entry for a sheet whose label is on three pages
C15_Witness ==
  /\ kpc = "done"
  /\ \E j \in 1..Len(keyPages) :
       Cardinality(Occurrences(keyPages[j].sheetNumber)) >= 3

\* entry e carries the label, description and category of sheet item
EntryOfSheet(e, item) ==
  /\ e.sheetNumber = item.sheetNumber
  /\ e.description = item.description
  /\ e.category = item.category

\* the strictly increasing maps from the entries to the identified sheets
EntryMaps ==
  {f \in [1..Len(keyPages) -> 1..Len(identified)] :
     \A a, b \in 1..Len(keyPages) : a < b => f[a] < f[b]}

\* C36: every emitted entry carries the label, description and category of
\* one identified sheet and the index of a page of the document whose stripped
\* text holds the stripped label; a sheet with no occurrence or with an empty
\* stripped label has no entry; the entries follow the order of the sheets,
\* at most one for each.
C36_EntriesResolveToPages ==
  /\ \A j \in 1..Len(keyPages) :
       LET e == keyPages[j] IN
       /\ \E k \in 1..Len(identified) : EntryOfSheet(e, identified[k])
       /\ e.pageIndex >= 0 /\ e.pageIndex < Len(pageTexts)
       /\ IncludesText(StripSeparators(pageTexts[e.pageIndex + 1]),
                       StripSeparators(e.sheetNumber))
       /\ StripSeparators(e.sheetNumber) # <<>>
  /\ \A k \in Resolved :
       LET label == identified[k].sheetNumber IN
       (Occurrences(label) = {} \/ StripSeparators(label) = <<>>)
         => EntriesOf(label) = {}
  /\ \E f \in EntryMaps :
       \A j \in 1..Len(keyPages) : EntryOfSheet(keyPages[j], identified[f[j]])

\* C36 witness: of a sheet that is on no page and a sheet that is on page 1
\* of a two-page document, the resolver returned the one entry of the second
C36_Witness ==
  /\ kpc = "done"
  /\ Len(pageTexts) = 2 /\ pageTexts[2] = <<"A", "2">>
  /\ Len(identified) = 2
  /\ identified[1].sheetNumber = <<"B">>
  /\ identified[2].sheetNumber = <<"A", ".", "2">>
  /\ keyPages = <<KeyPage(identified[2], 1)>>

(***************************************************************************)
(* processVisuals after the cropping step: the linking of the items        *)
(***************************************************************************)
InitVisuals ==
  /\ vCatalog \in Catalogs
  /\ vTakeoff \in Takeoffs
  /\ vpc = "linking"
  /\ IdleBut("v")

\* the maps are built from the catalog and every item is resolved; a
\* TypeError ends processVisuals where it is raised
LinkVisuals ==
  /\ vpc = "linking"
  /\ LET m == CatalogMaps(vCatalog, 1, <<>>, <<>>)
         l == LinkItems(vTakeoff, 1, m.designMap, m.fuzzyKeys)
     IN IF m.thrown
        THEN vpc' = "thrown" /\ vTakeoff' = vTakeoff
        ELSE /\ vTakeoff' = l.takeoff
             /\ vpc' = IF l.thrown THEN "thrown" ELSE "returned"
  /\ UNCHANGED vCatalog
  /\ UNCHANGED restV

NextVisuals ==
  \/ LinkVisuals

SpecVisuals == InitVisuals /\ [][NextVisuals]_vars

(***************************************************************************)
(* Properties of processVisuals (specification SpecVisuals)                *)
(***************************************************************************)
\* the images of the catalog entries
CatalogImages ==
  {vCatalog[j].designImage : j \in 1..Len(vCatalog)} \ {NoImage}

\* C16 (as claimed): once processVisuals has run, every item whose type code
\* equals, after normalization, the type code of a catalog entry with an
\* image holds a catalog image, and processVisuals has returned.
C16_NormalizedCodesLinked ==
  vpc \in {"returned", "thrown"}
    => \A k \in 1..Len(vTakeoff), j \in 1..Len(vCatalog) :
         ( /\ vCatalog[j].designImage # NoImage
           /\ vCatalog[j].typeCode # Undef
           /\ vTakeoff[k].signType # Undef
           /\ normalize(vTakeoff[k].signType) = normalize(vCatalog[j].typeCode) )
         => /\ vpc = "returned"
            /\ vTakeoff[k].designImage \in CatalogImages

\* the maps processVisuals builds from the catalog
VisualsMaps == CatalogMaps(vCatalog, 1, <<>>, <<>>)

\* the step that resolved item k
StepOf(k) ==
  ResolveStep(vTakeoff[k].signType, VisualsMaps.designMap, VisualsMaps.fuzzyKeys)

\* the places of the catalog entries that have an image and a type code
Imaged ==
  {j \in 1..Len(vCatalog) :
     vCatalog[j].designImage # NoImage /\ vCatalog[j].typeCode # Undef}

\* those whose type code is the type code of item k, case ignored
ExactEntries(k) ==
  {j \in Imaged : ToLowerCase(vCatalog[j].typeCode) = ToLowerCase(vTakeoff[k].signType)}

\* those whose normalized key is the normalized key of item k
NormEntries(k) ==
  {j \in Imaged : normalize(vCatalog[j].typeCode) = normalize(vTakeoff[k].signType)}

\* those whose normalized key includes that of item k or is included in it
SubEntries(k) ==
  {j \in Imaged :
     \/ IncludesText(normalize(vTakeoff[k].signType), normalize(vCatalog[j].typeCode))
     \/ IncludesText(normalize(vCatalog[j].typeCode), normalize(vTakeoff[k].signType))}

ImagesAt(S) == {vCatalog[j].designImage : j \in S}

Least(S) == CHOOSE j \in S : \A m \in S : j <= m

\* the items that have a type code
Coded == {k \in 1..Len(vTakeoff) : vTakeoff[k].signType # Undef}

\* C26 (as claimed): once processVisuals has run, an item whose type code
\* equals, case ignored, the type code of a catalog entry with an image holds
\* the image of such an entry, and the exact step resolves an item only when
\* there is such an entry.
C26_ExactMatchOnTypeCodes ==
  vpc \in {"returned", "thrown"}
    => \A k \in Coded :
         /\ ExactEntries(k) # {}
              => /\ vpc = "returned"
                 /\ vTakeoff[k].designImage \in ImagesAt(ExactEntries(k))
         /\ (vpc = "returned" /\ StepOf(k) = "exact") => ExactEntries(k) # {}

\* C27 (as claimed): once processVisuals has run, an item holds the image of
\* an entry that matches its type code exactly if there is one, else of an
\* entry with its normalized key if there is one, else of the first entry of
\* the catalog whose normalized key includes its own or is included in it.
C27_LinkingPrecedence ==
  vpc \in {"returned", "thrown"}
    => \A k \in Coded :
         IF ExactEntries(k) # {}
         THEN vpc = "returned" /\ vTakeoff[k].designImage \in ImagesAt(ExactEntries(k))
         ELSE IF NormEntries(k) # {}
         THEN vpc = "returned" /\ vTakeoff[k].designImage \in ImagesAt(NormEntries(k))
         ELSE SubEntries(k) # {}
                => /\ vpc = "returned"
                   /\ vTakeoff[k].designImage = vCatalog[Least(SubEntries(k))].designImage

\* C28 (as claimed): when the substring step resolves an item, the item's
\* normalized key and the catalog key it matched are both non-empty.
C28_SubstringNeedsNonEmptyKeys ==
  vpc = "returned"
    => \A k \in Coded :
         StepOf(k) = "substring"
           => /\ normalize(vTakeoff[k].signType) # <<>>
              /\ VisualsMaps.fuzzyKeys[PartialIndex(normalize(vTakeoff[k].signType),
                                                    VisualsMaps.fuzzyKeys, 1)].key # <<>>

\* C29 (as claimed): once processVisuals has run, every image an item holds
\* is the image of a catalog entry of the result; and when no catalog entry
\* has an image, processVisuals has returned and no item holds one.
C29_ImagesComeFromCatalog ==
  vpc \in {"returned", "thrown"}
    => /\ \A k \in 1..Len(vTakeoff) :
            vTakeoff[k].designImage \in CatalogImages \cup {NoImage}
       /\ CatalogImages = {}
            => /\ vpc = "returned"
               /\ \A k \in 1..Len(vTakeoff) : vTakeoff[k].designImage = NoImage

\* C30 (as claimed): processVisuals never raises: it returns, and an item
\* without a type code holds no image.
C30_LinkingNeverRaises ==
  vpc # "idle"
    => /\ vpc # "thrown"
       /\ \A k \in 1..Len(vTakeoff) :
            vTakeoff[k].signType = Undef => vTakeoff[k].designImage = NoImage

(***************************************************************************)
(* cropImage under its callers                                             *)
(***************************************************************************)
InitCrop ==
  /\ cImages \in ImageLists
  /\ \E b \in Boxes, i \in Indices : cTypeDef = TypeDef(b, i)
  /\ cPad = 0 /\ cCtx = TRUE /\ cpc = "start"
  /\ IdleBut("c")

\* processVisuals crops the image of a catalog entry
CropEntry ==
  /\ cpc = "start"
  /\ \E pct \in ServicePaddings, ctx \in BOOLEAN :
       /\ cTypeDef' = CropTypeDef(cTypeDef, cImages, pct, ctx)
       /\ cPad' = pct /\ cCtx' = ctx
  /\ cpc' = "entry"
  /\ UNCHANGED cImages
  /\ UNCHANGED restC

\* handleAssignToType crops the selection from the displayed image and, when
\* it gets an image, assigns it to the type
ManualCrop ==
  /\ cpc = "start"
  /\ Len(cTypeDef.boundingBox) = 4
  /\ \E ctx \in BOOLEAN :
       LET base64Crop == cropImage(cImages[Len(cImages)], cTypeDef.boundingBox,
                                   ManualPadding, ctx)
       IN /\ cTypeDef' = IF base64Crop # NoCrop
                         THEN [cTypeDef EXCEPT !.designImage = base64Crop]
                         ELSE cTypeDef
          /\ cPad' = ManualPadding /\ cCtx' = ctx
  /\ cpc' = "manual"
  /\ UNCHANGED cImages
  /\ UNCHANGED restC

NextCrop ==
  \/ CropEntry
  \/ ManualCrop

SpecCrop == InitCrop /\ [][NextCrop]_vars

(***************************************************************************)
(* Properties of cropImage (specification SpecCrop)                        *)
(***************************************************************************)
\* the image cropImage was called on, if it was called
CroppedFrom ==
  IF cpc = "manual" THEN {cImages[Len(cImages)]}
  ELSE IF cpc = "entry" /\ Len(cTypeDef.boundingBox) = 4
  THEN {cImages[i + 1] : i \in {j \in ImageIndex(cTypeDef.imageIndex, Len(cImages)) :
                                  j >= 0 /\ j < Len(cImages)}}
  ELSE {}

\* C18: the box [0, 0, 1000, 1000] cropped with padding 0 from an image of
\* width W and height H gives the rectangle at (0, 0) of size exactly (W, H).
C18_FullBoxIsWholeImage ==
  \A img \in CroppedFrom :
    (cTypeDef.boundingBox = <<0, 0, 1000, 1000>> /\ cPad = 0 /\ cCtx)
      => cTypeDef.designImage = Rect(0, 0, img.width * Scale, img.height * Scale)

\* C18 witness: the whole of a 3 by 2 image was cropped
C18_Witness ==
  /\ cpc = "manual"
  /\ cTypeDef.boundingBox = <<0, 0, 1000, 1000>>
  /\ cImages[Len(cImages)] = [width |-> 3, height |-> 2]
  /\ cTypeDef.designImage = Rect(0, 0, 3 * Scale, 2 * Scale)

\* C19: whenever the width or height that cropImage computes is zero or
\* negative, as for every box with xmin = xmax or ymin = ymax under any
\* padding, it yields no image and the entry's image stays unset.
C19_EmptyCropYieldsNothing ==
  \A img \in CroppedFrom :
    LET b == cTypeDef.boundingBox IN
    ( \/ ClampSize(b[2], b[4], cPad, img.width) <= 0
      \/ ClampSize(b[1], b[3], cPad, img.height) <= 0
      \/ b[2] = b[4]
      \/ b[1] = b[3] )
    => cTypeDef.designImage = NoCrop

\* C19 witness: a box of no width was cropped with padding 0.20 and a
\* context, and the entry has no image
C19_Witness ==
  /\ cpc = "entry" /\ cPad = 20 /\ cCtx
  /\ CroppedFrom # {}
  /\ cTypeDef.boundingBox = <<0, 500, 1000, 500>>
  /\ cTypeDef.designImage = NoCrop

\* the padded box on one axis, intersected with the image: its two ends
PaddedLow(lo, hi, pct, dim) == Max(0, ToPixels(lo * 100 - Padding(lo, hi, pct), dim))

PaddedHigh(lo, hi, pct, dim) ==
  Min(dim * Scale, ToPixels(hi * 100 + Padding(lo, hi, pct), dim))

\* C33 (as claimed): the rectangle of a produced crop is the box extended by
\* the padding on all four sides and intersected with the image, so its right
\* edge is at most (xmax + p * (xmax - xmin)) / 1000 * W and its bottom edge at
\* most (ymax + p * (ymax - ymin)) / 1000 * H.
C33_PaddingSymmetric ==
  \A img \in CroppedFrom :
    LET b == cTypeDef.boundingBox
        r == cTypeDef.designImage
    IN r # NoCrop
         => /\ r.x = PaddedLow(b[2], b[4], cPad, img.width)
            /\ r.y = PaddedLow(b[1], b[3], cPad, img.height)
            /\ r.x + r.w = PaddedHigh(b[2], b[4], cPad, img.width)
            /\ r.y + r.h = PaddedHigh(b[1], b[3], cPad, img.height)
            /\ r.x + r.w <= ToPixels(b[4] * 100 + Padding(b[2], b[4], cPad), img.width)
            /\ r.y + r.h <= ToPixels(b[3] * 100 + Padding(b[1], b[3], cPad), img.height)

\* C34: every rectangle of a produced crop lies inside its source image:
\* x >= 0, y >= 0, width > 0, height > 0, x + width <= W and y + height <= H.
C34_CropInsideImage ==
  \A img \in CroppedFrom :
    LET r == cTypeDef.designImage IN
    r # NoCrop
      => /\ r.x >= 0 /\ r.y >= 0
         /\ r.w > 0 /\ r.h > 0
         /\ r.x + r.w <= img.width * Scale
         /\ r.y + r.h <= img.height * Scale

\* C34 witness: a box in the lower right corner, padded by 0.20 beyond the
\* right and the bottom edge of a 3 by 2 image, gave a crop that ends at them
C34_Witness ==
  /\ cpc = "entry" /\ cPad = 20 /\ cCtx
  /\ cTypeDef.boundingBox = <<500, 500, 1000, 1000>>
  /\ \E img \in CroppedFrom :
       /\ img = [width |-> 3, height |-> 2]
       /\ PixelSize(500, 1000, 20, 3) > 3 * Scale - ClampOrigin(500, 1000, 20, 3)
       /\ cTypeDef.designImage # NoCrop
       /\ cTypeDef.designImage.x + cTypeDef.designImage.w = 3 * Scale
       /\ cTypeDef.designImage.y + cTypeDef.designImage.h = 2 * Scale

InitApp == AppIdle /\ IdleBut("p")

\* analyzeDrawing resolved: setAnalysisResult(result)
AnalysisCompletes(maxRows, maxEntries) ==
  /\ \E t \in RowLists(nextOid, maxRows), c \in EntryLists(maxEntries) :
       /\ nextOid + Len(t) + Len(c) <= MaxObjects
       /\ analysisResult' = Result(t, c)
       /\ nextOid' = nextOid + Len(t) + Len(c)
  /\ lastMerge' = <<>>
  /\ UNCHANGED <<masterTakeoff, masterCatalog, viewMode, editingLocation, editValue>>
  /\ UNCHANGED restP

\* the analysis of a sheet without catalog, and of a sheet with one
AnalysisOfSheet == AnalysisCompletes(MaxRows, 0)

AnalysisWithCatalog == AnalysisCompletes(1, MaxEntries)

handleAddToProject ==
  /\ analysisResult # NoResult
  /\ LET r == analysisResult[1]
         u == Upsert(CatalogMapOf(masterCatalog, 1, <<>>), r.catalog, 1, <<>>)
     IN /\ masterTakeoff' = MergeTakeoff(masterTakeoff, r.takeoff)
        /\ masterCatalog' = MapValues(u.map)
        /\ analysisResult' = Result(r.takeoff, u.incoming)
        /\ lastMerge' = <<[prev |-> masterCatalog, incoming |-> r.catalog]>>
  /\ UNCHANGED <<viewMode, editingLocation, editValue, nextOid>>
  /\ UNCHANGED restP

\* the catalog after handleAssignToType: the first entry with exactly this
\* type code takes the crop, or a manual entry is added
AssignCatalog(catalog, signType, crop) ==
  IF \E i \in 1..Len(catalog) : catalog[i].typeCode = signType
  THEN LET existingIndex ==
             CHOOSE i \in 1..Len(catalog) :
               /\ catalog[i].typeCode = signType
               /\ \A j \in 1..(i - 1) : catalog[j].typeCode # signType
       IN [catalog EXCEPT ![existingIndex].designImage = crop]
  ELSE Append(catalog, CatalogEntry(signType, <<"Manual Extraction">>, crop))

\* the takeoff after handleAssignToType: every item of this type is copied
\* with the crop; the copies are the objects base + 1, base + 2, ...
AssignTakeoff(takeoff, signType, crop, base) ==
  [i \in 1..Len(takeoff) |->
     IF takeoff[i].signType = signType
     THEN [takeoff[i] EXCEPT
             !.designImage = crop,
             !.oid = base + Cardinality({j \in 1..i : takeoff[j].signType = signType})]
     ELSE takeoff[i]]

\* the number of items of a type
CountType(takeoff, signType) ==
  Cardinality({j \in 1..Len(takeoff) : takeoff[j].signType = signType})

\* a selection was cropped and is assigned to a type
handleAssignToType ==
  /\ \E signType \in {<<"A">>, <<"a">>, <<"B">>} :
       LET crop == <<"crop">>
           t == IF analysisResult = NoResult THEN <<>> ELSE analysisResult[1].takeoff
           n == CountType(t, signType)
           created == n + CountType(masterTakeoff, signType) + 2
       IN /\ nextOid + created <= MaxObjects
          /\ analysisResult' =
               IF analysisResult = NoResult
               THEN Result(<<>>, <<CatalogEntry(signType, <<"Manual Extraction">>, crop)>>)
               ELSE Result(AssignTakeoff(t, signType, crop, nextOid),
                           AssignCatalog(analysisResult[1].catalog, signType, crop))
          /\ masterCatalog' = AssignCatalog(masterCatalog, signType, crop)
          /\ masterTakeoff' = AssignTakeoff(masterTakeoff, signType, crop, nextOid + n)
          /\ nextOid' = nextOid + created
  /\ lastMerge' = <<>>
  /\ UNCHANGED <<viewMode, editingLocation, editValue>>
  /\ UNCHANGED restP

\* the takeoff on display
Displayed ==
  IF viewMode = "master" THEN masterTakeoff
  ELSE IF analysisResult = NoResult THEN <<>> ELSE analysisResult[1].takeoff

\* handleUpdateItem: the update goes to the list of the current view
handleUpdateItem(item, field, value) ==
  /\ nextOid < MaxObjects
  /\ nextOid' = nextOid + 1
  /\ IF viewMode = "master"
     THEN /\ masterTakeoff' = UpdateItem(masterTakeoff, item, field, value, nextOid + 1)
          /\ UNCHANGED analysisResult
     ELSE /\ analysisResult' =
               IF analysisResult = NoResult THEN NoResult
               ELSE Result(UpdateItem(analysisResult[1].takeoff, item, field, value, nextOid + 1),
                           analysisResult[1].catalog)
          /\ UNCHANGED masterTakeoff

onToggleView ==
  /\ \E isMaster \in BOOLEAN : viewMode' = IF isMaster THEN "master" ELSE "current"
  /\ UNCHANGED <<analysisResult, masterTakeoff, masterCatalog, editingLocation,
                 editValue, nextOid, lastMerge>>
  /\ UNCHANGED restP

startEditing ==
  /\ \E i \in 1..Len(Displayed), field \in {"quantity", "notes"} :
       /\ editingLocation' = <<[item |-> Displayed[i], field |-> field]>>
       /\ editValue' = IF field = "quantity" THEN TextOf(Displayed[i].quantity)
                       ELSE Displayed[i].notes
  /\ UNCHANGED <<analysisResult, masterTakeoff, masterCatalog, viewMode, nextOid, lastMerge>>
  /\ UNCHANGED restP

\* onChange of the cell's input: setEditValue(e.target.value)
ChangeEditValue ==
  /\ editingLocation # <<>>
  /\ \E typed \in Texts : editValue' = InputValue(editingLocation[1].field, typed)
  /\ UNCHANGED <<analysisResult, masterTakeoff, masterCatalog, viewMode,
                 editingLocation, nextOid, lastMerge>>
  /\ UNCHANGED restP

cancelEditing ==
  /\ editingLocation # <<>>
  /\ editingLocation' = <<>> /\ editValue' = ""
  /\ UNCHANGED <<analysisResult, masterTakeoff, masterCatalog, viewMode, nextOid, lastMerge>>
  /\ UNCHANGED restP

saveEditing ==
  /\ editingLocation # <<>>
  /\ LET item == editingLocation[1].item
         field == editingLocation[1].field
         changed == IF field = "quantity"
                    THEN item.quantity # FinalQuantity(editValue)
                    ELSE item.notes # editValue
     IN \E confirm \in BOOLEAN :
          IF changed /\ confirm
          THEN IF field = "quantity"
               THEN handleUpdateItem(item, field, FinalQuantity(editValue))
               ELSE handleUpdateItem(item, field, editValue)
          ELSE UNCHANGED <<analysisResult, masterTakeoff, nextOid>>
  /\ editingLocation' = <<>> /\ editValue' = ""
  /\ lastMerge' = <<>>
  /\ UNCHANGED <<masterCatalog, viewMode>>
  /\ UNCHANGED restP

\* the quantity input of the older table: onChange saves what parseInt gives
QuantityChange ==
  /\ \E i \in 1..Len(Displayed), t \in Texts :
       /\ ParseInt(t) # {}
       /\ handleUpdateItem(Displayed[i], "quantity", CHOOSE n \in ParseInt(t) : TRUE)
  /\ lastMerge' = <<>>
  /\ UNCHANGED <<masterCatalog, viewMode, editingLocation, editValue>>
  /\ UNCHANGED restP

NextProject ==
  \/ AnalysisWithCatalog
  \/ handleAddToProject
  \/ handleAssignToType

SpecProject == InitApp /\ [][NextProject]_vars

NextTable ==
  \/ AnalysisOfSheet
  \/ handleAddToProject
  \/ onToggleView
  \/ startEditing
  \/ ChangeEditValue
  \/ cancelEditing
  \/ saveEditing
  \/ QuantityChange

SpecTable == InitApp /\ [][NextTable]_vars

(***************************************************************************)
(* Properties of the project state (specifications SpecProject, SpecTable)  *)
(***************************************************************************)
\* the key of a catalog entry in the merge
KeyOf(e) == ToLowerCase(e.typeCode)

\* the places of a catalog that hold an entry with key k
PlacesOf(catalog, k) == {j \in 1..Len(catalog) : KeyOf(catalog[j]) = k}

\* C17 (as claimed): right after handleAddToProject the master catalog holds
\* one entry per incoming type code, case ignored, with the type code and
\* text of the (last) incoming entry of that code and, when that entry came
\* without image, an image the code already had; and every entry of the
\* previous catalog whose type code is not among the incoming ones is still
\* there, unchanged.
C17_CatalogMergedByCode ==
  lastMerge # <<>> =>
    LET prev == lastMerge[1].prev
        inc == lastMerge[1].incoming
    IN /\ \A i \in 1..Len(inc) :
            LET k == KeyOf(inc[i])
                had == ({prev[j].designImage : j \in PlacesOf(prev, k)}
                        \cup {inc[j].designImage : j \in PlacesOf(inc, k)}) \ {NoImage}
            IN /\ Cardinality(PlacesOf(masterCatalog, k)) = 1
               /\ (\A j \in PlacesOf(inc, k) : j <= i)
                    => \A m \in PlacesOf(masterCatalog, k) :
                         /\ masterCatalog[m].typeCode = inc[i].typeCode
                         /\ masterCatalog[m].description = inc[i].description
                         /\ IF inc[i].designImage # NoImage
                            THEN masterCatalog[m].designImage = inc[i].designImage
                            ELSE IF had = {}
                            THEN masterCatalog[m].designImage = NoImage
                            ELSE masterCatalog[m].designImage \in had
       /\ \A j \in 1..Len(prev) :
            PlacesOf(inc, KeyOf(prev[j])) = {}
              => \E m \in 1..Len(masterCatalog) : masterCatalog[m] = prev[j]

\* C20 (as claimed): every item of the current analysis result and of the
\* master takeoff has a quantity of at least 0.
C20_QuantityNonNegative ==
  /\ \A i \in 1..Len(masterTakeoff) : masterTakeoff[i].quantity >= 0
  /\ analysisResult # NoResult
       => \A i \in 1..Len(analysisResult[1].takeoff) :
            analysisResult[1].takeoff[i].quantity >= 0

\* the sheets of a list of items
SheetsOf(list) == {list[k].sheet : k \in 1..Len(list)}

\* the items of list, in order, whose sheet is not a sheet of takeoff
OfOtherSheets(list, takeoff) ==
  SelectSeq(list, LAMBDA item : item.sheet \notin SheetsOf(takeoff))

\* C37: a step of handleAddToProject leaves as master takeoff the previous
\* master items whose sheet is not a sheet of the result, in order, followed
\* by the items of the result; and adding the result once more changes
\* neither the master takeoff nor the master catalog.
C37_AddReplacesSheets ==
  [][handleAddToProject =>
       LET t == analysisResult[1].takeoff
           again == Upsert(CatalogMapOf(masterCatalog', 1, <<>>),
                           analysisResult'[1].catalog, 1, <<>>)
       IN /\ masterTakeoff' = OfOtherSheets(masterTakeoff, t) \o t
          /\ OfOtherSheets(masterTakeoff', analysisResult'[1].takeoff)
                \o analysisResult'[1].takeoff = masterTakeoff'
          /\ MapValues(again.map) = masterCatalog']_vars

\* C37 witness: sheet S1 was added, then sheet S2, then a newer result of
\* sheet S1 with a catalog was added, and added once more: the newer item of
\* S1 stands behind the item of S2, and the last addition kept the catalog
C37_Witness ==
  /\ lastMerge # <<>>
  /\ lastMerge[1].prev = masterCatalog /\ masterCatalog # <<>>
  /\ analysisResult # NoResult
  /\ Len(masterTakeoff) = 2
  /\ masterTakeoff[1].sheet = "S2" /\ masterTakeoff[1].oid = 2
  /\ masterTakeoff[2].sheet = "S1" /\ masterTakeoff[2].oid = 3
  /\ analysisResult[1].takeoff = <<masterTakeoff[2]>>

\* C38 (as claimed): the master catalog never holds two entries whose type
\* codes are equal when case is ignored.
C38_CatalogCodesUnique ==
  \A i, j \in 1..Len(masterCatalog) :
    i # j => KeyOf(masterCatalog[i]) # KeyOf(masterCatalog[j])

(***************************************************************************)
(* Documents: handleFileLoad of a PDF, its background indexing pass, and   *)
(* startNewProject.  A handler runs from one await to the next in one step.*)
(***************************************************************************)
InitDocuments == SessionIdle /\ IdleBut("s")

\* what the handlers of documents leave alone
analysisVars == <<abortControllerRef, analyses>>

\* a PDF is chosen: handleFileLoad up to await loadPdfDocument(file)
handleFileLoad ==
  /\ \E d \in DocIds :
       /\ uploads[d] = "none"
       /\ \A e \in DocIds : e < d => uploads[e] # "none"
       /\ uploads' = [uploads EXCEPT ![d] = "loading"]
  /\ analysisResult' = NoResult
  /\ appState' = "UPLOADING"
  /\ numPages' = 0
  /\ pdfDocRef' = 0
  /\ settings' = [settings EXCEPT !.keyPages = <<>>]
  /\ masterTakeoff' = <<>> /\ masterCatalog' = <<>>
  /\ UNCHANGED <<viewMode, currentPageIndex, isProcessingKeyPages, passes>>
  /\ UNCHANGED analysisVars /\ UNCHANGED restS

\* loadPdfDocument resolved: processUploadedPdf up to await loadPageForDisplay(0)
PdfLoaded ==
  /\ \E d \in DocIds :
       /\ uploads[d] = "loading"
       /\ uploads' = [uploads EXCEPT ![d] = "rendering"]
       /\ pdfDocRef' = d
  /\ numPages' = PagesPerDoc
  /\ currentPageIndex' = 0
  /\ UNCHANGED <<analysisResult, masterTakeoff, masterCatalog, viewMode, appState,
                 settings, isProcessingKeyPages, passes>>
  /\ UNCHANGED analysisVars /\ UNCHANGED restS

\* the first page is on display: the background pass of this document
\* starts, processUploadedPdf returns and handleFileLoad ends
PageDisplayed ==
  /\ \E d \in DocIds :
       /\ uploads[d] = "rendering"
       /\ uploads' = [uploads EXCEPT ![d] = "done"]
       /\ passes' = [passes EXCEPT ![d] = "running"]
  /\ isProcessingKeyPages' = TRUE
  /\ appState' = "IDLE"
  /\ UNCHANGED <<analysisResult, masterTakeoff, masterCatalog, viewMode, pdfDocRef,
                 numPages, currentPageIndex, settings>>
  /\ UNCHANGED analysisVars /\ UNCHANGED restS

\* the pass of document d ends: identifyKeyPages gave key pages (found) or
\* none, or the pass failed; then the finally block
IndexingDone ==
  /\ \E d \in DocIds, found \in BOOLEAN :
       /\ passes[d] = "running"
       /\ passes' = [passes EXCEPT ![d] = "done"]
       /\ settings' = IF found THEN [settings EXCEPT !.keyPages = DetectedKeys(d)]
                      ELSE settings
  /\ isProcessingKeyPages' = FALSE
  /\ UNCHANGED <<analysisResult, masterTakeoff, masterCatalog, viewMode, pdfDocRef,
                 numPages, currentPageIndex, appState, uploads>>
  /\ UNCHANGED analysisVars /\ UNCHANGED restS

startNewProject ==
  /\ \E confirm \in BOOLEAN :
       IF confirm
       THEN /\ appState' = "IDLE"
            /\ numPages' = 0
            /\ pdfDocRef' = 0
            /\ currentPageIndex' = 0
            /\ analysisResult' = NoResult
            /\ masterTakeoff' = <<>> /\ masterCatalog' = <<>>
            /\ viewMode' = "current"
            /\ settings' = DEFAULT_SETTINGS
       ELSE UNCHANGED <<appState, numPages, pdfDocRef, currentPageIndex, analysisResult,
                        masterTakeoff, masterCatalog, viewMode, settings>>
  /\ UNCHANGED <<isProcessingKeyPages, uploads, passes>>
  /\ UNCHANGED analysisVars /\ UNCHANGED restS

NextDocuments ==
  \/ handleFileLoad
  \/ PdfLoaded
  \/ PageDisplayed
  \/ IndexingDone
  \/ startNewProject

SpecDocuments == InitDocuments /\ [][NextDocuments]_vars

\* C21 (as claimed): settings.keyPages is empty or was computed from the
\* document that is loaded now.
C21_KeyPagesOfLoadedDocument ==
  \A i \in 1..Len(settings.keyPages) : settings.keyPages[i].doc = pdfDocRef

(***************************************************************************)
(* Analyses: startAnalysis, cancelAnalysis and the steps of an analysis in *)
(* flight, on a loaded document.  analyzeDrawing is followed from await to *)
(* await: it tests the signal before the request, after the request        *)
(* resolved and, on a rejection, only before a retry.                      *)
(***************************************************************************)
\* a PDF was uploaded and indexed
InitLoaded ==
  /\ pdfDocRef = 1 /\ numPages = PagesPerDoc /\ currentPageIndex = 0
  /\ appState = "IDLE"
  /\ settings \in {DEFAULT_SETTINGS, [DEFAULT_SETTINGS EXCEPT !.keyPages = DetectedKeys(1)]}
  /\ isProcessingKeyPages = FALSE
  /\ uploads = [d \in DocIds |-> IF d = 1 THEN "done" ELSE "none"]
  /\ passes = [d \in DocIds |-> IF d = 1 THEN "done" ELSE "none"]
  /\ abortControllerRef = 0
  /\ analyses = [a \in AnalysisIds |-> NoAnalysis]
  /\ IdleBut("s")

\* what the handlers of analyses and pages leave alone
documentVars == <<pdfDocRef, numPages, settings, isProcessingKeyPages, uploads, passes>>

\* controller.abort() on the controller of analysis a (0: there is none)
AbortOf(as, a) == IF a = 0 THEN as ELSE [as EXCEPT ![a].aborted = TRUE]

\* the Analyze button is shown and clicked: startAnalysis up to its first await
startAnalysis ==
  /\ numPages > 0 /\ appState \in {"IDLE", "COMPLETE", "ERROR"}
  /\ pdfDocRef # 0
  /\ \E a \in AnalysisIds :
       /\ analyses[a].stage = "none"
       /\ \A b \in AnalysisIds : b < a => analyses[b].stage # "none"
       /\ analyses' = [AbortOf(analyses, abortControllerRef) EXCEPT
                         ![a].stage = "prep", ![a].page = currentPageIndex]
       /\ abortControllerRef' = a
  /\ appState' = "ANALYZING"
  /\ viewMode' = "current"
  /\ UNCHANGED <<analysisResult, masterTakeoff, masterCatalog, currentPageIndex>>
  /\ UNCHANGED documentVars /\ UNCHANGED restS

\* the Cancel button of the overlay is clicked
cancelAnalysis ==
  /\ appState = "ANALYZING"
  /\ IF abortControllerRef # 0
     THEN /\ analyses' = [analyses EXCEPT ![abortControllerRef].aborted = TRUE,
                                          ![abortControllerRef].cancelled = TRUE]
          /\ abortControllerRef' = 0
          /\ appState' = "IDLE"
     ELSE UNCHANGED <<analyses, abortControllerRef, appState>>
  /\ UNCHANGED <<analysisResult, masterTakeoff, masterCatalog, viewMode, currentPageIndex>>
  /\ UNCHANGED documentVars /\ UNCHANGED restS

\* analyzeDrawing of analysis a settled and startAnalysis ran to its end:
\* the result is published, or the catch block ran; then the finally block
Finish(a, how) ==
  /\ analyses' = [analyses EXCEPT ![a].stage = "done", ![a].published = how]
  /\ abortControllerRef' = 0
  /\ CASE how = "result" ->
            /\ analysisResult' = PagedResult(a, analyses[a].page)
            /\ appState' = "COMPLETE"
       [] how = "cancelled" ->
            /\ appState' = "IDLE"
            /\ UNCHANGED analysisResult
       [] how = "error" ->
            /\ appState' = "ERROR"
            /\ UNCHANGED analysisResult

\* the page text and image are ready: analyzeDrawing is called, tests the
\* signal and sends the request
PrepDone ==
  /\ \E a \in AnalysisIds :
       /\ analyses[a].stage = "prep"
       /\ IF analyses[a].aborted
          THEN Finish(a, "cancelled")
          ELSE /\ analyses' = [analyses EXCEPT ![a].stage = "model"]
               /\ UNCHANGED <<abortControllerRef, appState, analysisResult>>
  /\ UNCHANGED <<masterTakeoff, masterCatalog, viewMode, currentPageIndex>>
  /\ UNCHANGED documentVars /\ UNCHANGED restS

\* generateContent resolved: cancelled if the signal is set, else the reply
\* parses and processVisuals is called, or it does not and the analysis fails
ModelResolves ==
  /\ \E a \in AnalysisIds, parses \in BOOLEAN :
       /\ analyses[a].stage = "model"
       /\ IF analyses[a].aborted THEN Finish(a, "cancelled")
          ELSE IF ~parses THEN Finish(a, "error")
          ELSE /\ analyses' = [analyses EXCEPT ![a].stage = "visuals"]
               /\ UNCHANGED <<abortControllerRef, appState, analysisResult>>
  /\ UNCHANGED <<masterTakeoff, masterCatalog, viewMode, currentPageIndex>>
  /\ UNCHANGED documentVars /\ UNCHANGED restS

\* generateContent rejected with a message that is not retriable: the catch
\* block of analyzeDrawing throws "Analysis failed" without a look at the
\* signal (a retriable rejection leads to another request or, with the
\* signal set, to the cancelled outcome, as in ModelResolves)
ModelFails ==
  /\ \E a \in AnalysisIds :
       /\ analyses[a].stage = "model"
       /\ Finish(a, "error")
  /\ UNCHANGED <<masterTakeoff, masterCatalog, viewMode, currentPageIndex>>
  /\ UNCHANGED documentVars /\ UNCHANGED restS

\* processVisuals settled: the result is returned, or its error is thrown
VisualsDone ==
  /\ \E a \in AnalysisIds, thrown \in BOOLEAN :
       /\ analyses[a].stage = "visuals"
       /\ Finish(a, IF thrown THEN "error" ELSE "result")
  /\ UNCHANGED <<masterTakeoff, masterCatalog, viewMode, currentPageIndex>>
  /\ UNCHANGED documentVars /\ UNCHANGED restS

NextAnalyses ==
  \/ startAnalysis
  \/ cancelAnalysis
  \/ PrepDone
  \/ ModelResolves
  \/ ModelFails
  \/ VisualsDone

SpecAnalyses == InitLoaded /\ [][NextAnalyses]_vars

\* C22 (as claimed): an analysis that cancelAnalysis aborted never publishes
\* a result and never sets the error state.
C22_CancelledNeverPublishes ==
  \A a \in AnalysisIds :
    analyses[a].cancelled => analyses[a].published \notin {"result", "error"}

\* C23 (as claimed): while an analysis is in flight and its signal is not
\* set, appState is ANALYZING and abortControllerRef holds its controller.
C23_InFlightIsCancellable ==
  \A a \in AnalysisIds :
    (analyses[a].stage \in {"prep", "model", "visuals"} /\ ~analyses[a].aborted)
      => appState = "ANALYZING" /\ abortControllerRef = a

(***************************************************************************)
(* Pages: navigation while analyses run                                    *)
(***************************************************************************)
\* the page index idx is put on display
ShowPage(idx) ==
  /\ currentPageIndex' = idx
  /\ analysisResult' = NoResult
  /\ appState' = "IDLE"
  /\ viewMode' = "current"

\* what a handler leaves alone when it does not change the page
SamePage == UNCHANGED <<currentPageIndex, analysisResult, appState, viewMode>>

nextPage ==
  /\ IF currentPageIndex < numPages - 1 THEN ShowPage(currentPageIndex + 1) ELSE SamePage
  /\ UNCHANGED <<masterTakeoff, masterCatalog, abortControllerRef, analyses>>
  /\ UNCHANGED documentVars /\ UNCHANGED restS

prevPage ==
  /\ IF currentPageIndex > 0 THEN ShowPage(currentPageIndex - 1) ELSE SamePage
  /\ UNCHANGED <<masterTakeoff, masterCatalog, abortControllerRef, analyses>>
  /\ UNCHANGED documentVars /\ UNCHANGED restS

\* the page box is submitted with a number (a text that is not a number
\* behaves as a number out of range)
handlePageInputSubmit ==
  /\ \E pageNum \in 0..(PagesPerDoc + 1) :
       IF pageNum >= 1 /\ pageNum <= numPages /\ pageNum - 1 # currentPageIndex
       THEN ShowPage(pageNum - 1)
       ELSE SamePage
  /\ UNCHANGED <<masterTakeoff, masterCatalog, abortControllerRef, analyses>>
  /\ UNCHANGED documentVars /\ UNCHANGED restS

\* a key page of the side panel is clicked
handleJumpToPage ==
  /\ \E pageIndex \in 0..PagesPerDoc :
       IF pageIndex >= 0 /\ pageIndex < numPages THEN ShowPage(pageIndex) ELSE SamePage
  /\ UNCHANGED <<masterTakeoff, masterCatalog, abortControllerRef, analyses>>
  /\ UNCHANGED documentVars /\ UNCHANGED restS

NextPages ==
  \/ startAnalysis
  \/ cancelAnalysis
  \/ PrepDone
  \/ ModelResolves
  \/ ModelFails
  \/ VisualsDone
  \/ nextPage
  \/ prevPage
  \/ handlePageInputSubmit
  \/ handleJumpToPage

SpecPages == InitLoaded /\ [][NextPages]_vars

\* C24 (as claimed): every item of analysisResult that carries a page number
\* carries the number of the page on display, currentPageIndex + 1.
C24_ResultOfShownPage ==
  analysisResult # NoResult
    => \A i \in 1..Len(analysisResult[1].takeoff) :
         "pageNumber" \in DOMAIN analysisResult[1].takeoff[i]
           => analysisResult[1].takeoff[i].pageNumber = currentPageIndex + 1

====
